---------------------------- MODULE Spec2Model ----------------------------
(***************************************************************************)
(* A model of the PCL three-pass compression engine                         *)
(* (lib/compression/three-pass-engine.ts, text-utils.ts, pass-zero.ts,      *)
(* smart-miss-tracker.ts, supabase.ts, confidence-system.ts and the SQL     *)
(* functions of database/schema.sql).                                       *)
(*                                                                          *)
(* Texts are TLA+ strings.  A character is a string of length one.          *)
(* Confidence scores are DECIMAL(3,2) in the database and are modelled as   *)
(* integers counting hundredths (0.70 is 70).                               *)
(***************************************************************************)
EXTENDS Integers, Sequences, FiniteSets, TLC

VARIABLES
    compressions,    \* table compressions: pattern id -> row
    miss_log,        \* table miss_log: word_phrase -> frequency
    user_feedback,   \* table user_feedback: the rows inserted, oldest first
    pass0Patterns,   \* ThreePassCompressionEngine.pass0Patterns
    phrasePatterns,  \* ThreePassCompressionEngine.phrasePatterns
    wordPatterns,    \* ThreePassCompressionEngine.wordPatterns
    cacheHits,       \* ThreePassCompressionEngine.cacheHits: key -> result
    lastIndex,       \* lastIndex of each regular expression of CONTRACTION_PATTERNS
    calls,           \* the compress calls made so far, in the order they started
    history,         \* what happened so far that the claims refer to
    feedbacks,       \* the confidence-system calls made so far
    pipeline         \* one run of the passes over a given text and given rule sets

storeVars == << compressions, miss_log, user_feedback >>
engineVars == << pass0Patterns, phrasePatterns, wordPatterns, cacheHits, lastIndex,
                 calls, history >>
vars == << compressions, miss_log, user_feedback, pass0Patterns, phrasePatterns,
           wordPatterns, cacheHits, lastIndex, calls, history, feedbacks, pipeline >>

(***************************************************************************)
(* JavaScript string primitives                                             *)
(***************************************************************************)
\* F applied to the value v: names a value that is used several times
With(v, F(_)) == F(v)

Ch(s, i) == SubSeq(s, i, i)

LowerAlpha == "abcdefghijklmnopqrstuvwxyz"
UpperAlpha == "ABCDEFGHIJKLMNOPQRSTUVWXYZ"
DigitChars == "0123456789"

CharsOf(s) == {Ch(s, i) : i \in 1..Len(s)}

LowerSet == CharsOf(LowerAlpha)
UpperSet == CharsOf(UpperAlpha)
DigitSet == CharsOf(DigitChars)

\* \w of a JavaScript regular expression: [A-Za-z0-9_]
IsWordChar(c) == c \in LowerSet \cup UpperSet \cup DigitSet \cup {"_"}

\* \s of a JavaScript regular expression, over the characters of the model's inputs
IsSpace(c) == c = " "

LowerOf == [c \in UpperSet |-> Ch(LowerAlpha, CHOOSE i \in 1..26 : Ch(UpperAlpha, i) = c)]
UpperOf == [c \in LowerSet |-> Ch(UpperAlpha, CHOOSE i \in 1..26 : Ch(LowerAlpha, i) = c)]

toLowerChar(c) == IF c \in UpperSet THEN LowerOf[c] ELSE c
toUpperChar(c) == IF c \in LowerSet THEN UpperOf[c] ELSE c

RECURSIVE toLowerCase(_)
toLowerCase(s) ==
    IF s = "" THEN "" ELSE toLowerChar(Head(s)) \o toLowerCase(Tail(s))

RECURSIVE toUpperCase(_)
toUpperCase(s) ==
    IF s = "" THEN "" ELSE toUpperChar(Head(s)) \o toUpperCase(Tail(s))

RECURSIVE trimStart(_)
trimStart(s) ==
    IF s # "" /\ IsSpace(Head(s)) THEN trimStart(Tail(s)) ELSE s

RECURSIVE trimEnd(_)
trimEnd(s) ==
    IF s # "" /\ IsSpace(Ch(s, Len(s))) THEN trimEnd(SubSeq(s, 1, Len(s) - 1)) ELSE s

trim(s) == trimEnd(trimStart(s))

startsWith(s, p) == Len(p) <= Len(s) /\ SubSeq(s, 1, Len(p)) = p
endsWith(s, p) == Len(p) <= Len(s) /\ SubSeq(s, Len(s) - Len(p) + 1, Len(s)) = p

\* s.slice(n): the characters after the first n
sliceFrom(s, n) == SubSeq(s, n + 1, Len(s))

\* the length of the run of characters satisfying \s at the start of s
RECURSIVE SpaceRun(_)
SpaceRun(s) ==
    IF s # "" /\ IsSpace(Head(s)) THEN 1 + SpaceRun(Tail(s)) ELSE 0

\* the length of the run of characters not satisfying \s at the start of s
RECURSIVE NonSpaceRun(_)
NonSpaceRun(s) ==
    IF s # "" /\ ~IsSpace(Head(s)) THEN 1 + NonSpaceRun(Tail(s)) ELSE 0

\* s.split(/\s+/).filter(token => token.length > 0)
RECURSIVE splitWhitespace(_)
splitWhitespace(s) ==
    IF s = "" THEN << >>
    ELSE IF IsSpace(Head(s)) THEN splitWhitespace(sliceFrom(s, SpaceRun(s)))
    ELSE With(NonSpaceRun(s),
              LAMBDA n : <<SubSeq(s, 1, n)>> \o splitWhitespace(sliceFrom(s, n)))

\* s.split(' ')[0]
firstBySpace(s) == SubSeq(s, 1, NonSpaceRun(s))

\* words.join(' ')
RECURSIVE joinSpace(_)
joinSpace(ws) ==
    IF ws = << >> THEN ""
    ELSE IF Len(ws) = 1 THEN ws[1]
    ELSE ws[1] \o " " \o joinSpace(Tail(ws))

\* The pairs <<p, q>> with |p| <= 200 and 0 < q < 130 for which the double
\* (p / q) * 100 falls on the other side of a half than the exact quotient
\* (0.575 * 100 is 57.49999999999999, -0.275 * 100 is -27.500000000000004).
DoubleBelowHalf ==
    {<<23, 40>>, <<46, 80>>, <<69, 120>>, <<-11, 40>>, <<-22, 80>>, <<-33, 120>>,
     <<-49, 40>>, <<-98, 80>>, <<-83, 40>>, <<-93, 40>>}

\* Math.round((p / q) * 100) in IEEE doubles, for q > 0
RoundPercent(p, q) ==
    ((200 * p + q) \div (2 * q)) - (IF <<p, q>> \in DoubleBelowHalf THEN 1 ELSE 0)


(***************************************************************************)
(* Pass 0: question prefix removal (pass-zero.ts)                           *)
(***************************************************************************)
NULL == "<null>"

\* The prefix patterns with the two-word prefixes declared before the longer ones
questionPrefixesShortFirst ==
    << "can you", "could you", "would you", "will you",
       "can you please", "could you please", "would you please",
       "would it be possible to", "is it possible to", "i would like you to",
       "i need you to",
       "please" >>

\* The prefix patterns in declaration order; entry p stands for /^p\s+/i
questionPrefixes ==
    << "can you please", "could you please", "would you please",
       "would it be possible to", "is it possible to", "i would like you to",
       "i need you to",
       "can you", "could you", "would you", "will you",
       "please" >>

\* The length of the match of /^p\s+/i at the start of s, 0 when there is none
prefixMatchLen(s, p) ==
    IF Len(s) > Len(p) /\ toLowerCase(SubSeq(s, 1, Len(p))) = p
          /\ IsSpace(Ch(s, Len(p) + 1))
    THEN Len(p) + SpaceRun(sliceFrom(s, Len(p)))
    ELSE 0

AllIn(s, set) == \A i \in 1..Len(s) : Ch(s, i) \in set

\* /^[A-Z][a-z]*[A-Z]/ : an upper-case letter, lower-case letters, an upper-case letter
RECURSIVE LowerRun(_)
LowerRun(s) ==
    IF s # "" /\ Head(s) \in LowerSet THEN 1 + LowerRun(Tail(s)) ELSE 0

\* properNounPatterns.some(pattern => pattern.test(firstWord))
properNounPatterns(firstWord) ==
    /\ Len(firstWord) >= 2
    /\ \/ Ch(firstWord, 1) \in UpperSet /\ AllIn(Tail(firstWord), LowerSet)
       \/ AllIn(firstWord, UpperSet)
       \/ /\ Ch(firstWord, 1) \in UpperSet
          /\ With(LowerRun(Tail(firstWord)),
                  LAMBDA k : k + 2 <= Len(firstWord)
                                /\ Ch(firstWord, k + 2) \in UpperSet)

isLikelyProperNoun(text) == properNounPatterns(firstBySpace(text))

\* Step 2 of processText: lower-case the first letter unless a likely proper noun
normalizeFirstLetter(processedText) ==
    IF processedText # ""
          /\ Ch(processedText, 1) = toUpperChar(Ch(processedText, 1))
          /\ ~isLikelyProperNoun(processedText)
    THEN toLowerChar(Ch(processedText, 1)) \o sliceFrom(processedText, 1)
    ELSE processedText

\* The index of the first entry of questionPrefixes that matches, 0 when none does
firstPrefix(originalText) ==
    With({i \in 1..Len(questionPrefixes) :
             prefixMatchLen(originalText, questionPrefixes[i]) > 0},
         LAMBDA hits : IF hits = {} THEN 0
                       ELSE CHOOSE i \in hits : \A j \in hits : i <= j)

\* processText appending "?" whenever a prefix was removed
pass0OutcomeAlwaysMarked(originalText, prefixRemoved, processedText) ==
    With(IF prefixRemoved # NULL THEN processedText \o "?" ELSE processedText,
         LAMBDA final :
            [original |-> originalText,
             processed |-> final,
             prefixRemoved |-> prefixRemoved,
             compressionRatio |->
                 RoundPercent(Len(originalText) - Len(final), Len(originalText)),
             questionMarkAdded |-> prefixRemoved # NULL])

\* Step 3 of processText and the result; processedText is the text after steps 1-2
pass0Outcome(originalText, prefixRemoved, processedText) ==
    With(prefixRemoved # NULL /\ ~endsWith(processedText, "?")
            /\ ~endsWith(processedText, "."),
         LAMBDA questionMarkAdded :
            With(IF questionMarkAdded THEN processedText \o "?" ELSE processedText,
                 LAMBDA final :
                    [original |-> originalText,
                     processed |-> final,
                     prefixRemoved |-> prefixRemoved,
                     compressionRatio |->
                         RoundPercent(Len(originalText) - Len(final),
                                      Len(originalText)),
                     questionMarkAdded |-> questionMarkAdded]))

\* Steps 1-2 of processText for the trimmed text and the prefix found in it
removePrefix(originalText, first) ==
    IF first = 0 THEN pass0Outcome(originalText, NULL, originalText)
    ELSE pass0Outcome(
            originalText,
            SubSeq(originalText, 1, Len(questionPrefixes[first])),
            normalizeFirstLetter(
                trim(sliceFrom(originalText,
                        prefixMatchLen(originalText, questionPrefixes[first])))))

processText(text) ==
    With(trim(text),
         LAMBDA originalText :
            IF originalText = ""
            THEN [original |-> text, processed |-> text, prefixRemoved |-> NULL,
                  compressionRatio |-> 0, questionMarkAdded |-> FALSE]
            ELSE removePrefix(originalText, firstPrefix(originalText)))

(***************************************************************************)
(* Tokenizer (text-utils.ts)                                                *)
(***************************************************************************)
\* PUNCTUATION_REGEX, TRAILING_PUNCTUATION_REGEX, LEADING_PUNCTUATION_REGEX.  Of the
\* class of PUNCTUATION_REGEX the ASCII characters are listed, but for the grave
\* accent, which a TLA+ string cannot hold; no input of the model contains one.
PunctuationSet == CharsOf(".,!?:;\"'()[]{}-*#@$%^&+=<>|\\/~")
TrailingPunctuationSet == CharsOf(".,!?:;\"')]}")
LeadingPunctuationSet == CharsOf("\"'([{")

\* CONTRACTION_PATTERNS: entry i stands for /\b\w+'<suffix>\b/g, where the empty
\* suffix of the first entry stands for \w+.  The regular expressions carry the g
\* flag, so each keeps its lastIndex between calls of test().
CONTRACTION_PATTERNS == << "", "s", "re", "ll", "ve", "d" >>

NoMatch == -1

\* The character of w at 0-based offset k
At(w, k) == Ch(w, k + 1)

\* The end (0-based, exclusive) of the run of \w characters of w starting at offset k
RECURSIVE WordRunEnd(_, _)
WordRunEnd(w, k) ==
    IF k < Len(w) /\ IsWordChar(At(w, k)) THEN WordRunEnd(w, k + 1) ELSE k

\* The end of the match of /\b\w+'<suffix>\b/ starting exactly at offset s, or NoMatch
\* The end of the match of '<suffix>\b after the run of \w characters that ends at e
contractionTail(w, e, suffix) ==
    IF ~(e < Len(w) /\ At(w, e) = "'") THEN NoMatch
    ELSE IF suffix = ""
    THEN With(WordRunEnd(w, e + 1), LAMBDA f : IF f > e + 1 THEN f ELSE NoMatch)
    ELSE With(e + 1 + Len(suffix),
              LAMBDA f : IF f <= Len(w) /\ SubSeq(w, e + 2, f) = suffix
                            /\ (f = Len(w) \/ ~IsWordChar(At(w, f)))
                         THEN f ELSE NoMatch)

contractionMatchAt(w, s, suffix) ==
    IF ~(s < Len(w) /\ IsWordChar(At(w, s)) /\ (s = 0 \/ ~IsWordChar(At(w, s - 1))))
    THEN NoMatch
    ELSE contractionTail(w, WordRunEnd(w, s), suffix)

\* The end of the leftmost match starting at offset >= from, or NoMatch
RECURSIVE contractionSearch(_, _, _)
contractionSearch(w, from, suffix) ==
    IF from > Len(w) THEN NoMatch
    ELSE With(contractionMatchAt(w, from, suffix),
              LAMBDA m : IF m # NoMatch THEN m
                         ELSE contractionSearch(w, from + 1, suffix))

\* for (const pattern of CONTRACTION_PATTERNS) if (pattern.test(word)) return true
\* li is the sequence of the patterns' lastIndex values; test() searches from
\* lastIndex, sets it to the end of the match, and resets it to 0 on failure.
RECURSIVE testContractions(_, _, _)
testContractions(word, li, i) ==
    IF i > Len(CONTRACTION_PATTERNS) THEN [matched |-> FALSE, li |-> li]
    ELSE With(contractionSearch(word, li[i], CONTRACTION_PATTERNS[i]),
              LAMBDA m : IF m # NoMatch
                         THEN [matched |-> TRUE, li |-> [li EXCEPT ![i] = m]]
                         ELSE testContractions(word, [li EXCEPT ![i] = 0], i + 1))

\* DECIMAL_PATTERN /^\d+\.\d+$/
isDecimal(w) ==
    \E k \in 2..(Len(w) - 1) :
        /\ Ch(w, k) = "."
        /\ AllIn(SubSeq(w, 1, k - 1), DigitSet)
        /\ AllIn(SubSeq(w, k + 1, Len(w)), DigitSet)

\* URL_PATTERN /\w+\.\w+/ (not anchored)
isUrlLike(w) ==
    \E k \in 2..(Len(w) - 1) :
        Ch(w, k) = "." /\ IsWordChar(Ch(w, k - 1)) /\ IsWordChar(Ch(w, k + 1))

\* COMPOUND_WORD_PATTERN /^\w+-\w+$/
isCompound(w) ==
    \E k \in 2..(Len(w) - 1) :
        /\ Ch(w, k) = "-"
        /\ \A j \in (1..Len(w)) \ {k} : IsWordChar(Ch(w, j))

isSpecialCase(word, li) ==
    With(testContractions(word, li, 1),
         LAMBDA c : IF c.matched THEN c
                    ELSE [matched |-> isDecimal(word) \/ isUrlLike(word)
                                         \/ isCompound(word),
                          li |-> c.li])

\* cleanWord.replace(PUNCTUATION_REGEX, '')
RECURSIVE stripPunctuation(_)
stripPunctuation(s) ==
    IF s = "" THEN ""
    ELSE IF Head(s) \in PunctuationSet THEN stripPunctuation(Tail(s))
    ELSE Head(s) \o stripPunctuation(Tail(s))

\* cleanWord from line 49 on: cleaned is the trimmed, lower-cased word, special
\* the outcome of isSpecialCase for it
cleanLowered(word, cleaned, special) ==
    IF special.matched
    THEN [cw |-> [clean |-> cleaned, original |-> word,
                  leadingPunctuation |-> "", trailingPunctuation |-> ""],
          li |-> special.li]
    ELSE [cw |-> [clean |-> stripPunctuation(cleaned), original |-> word,
                  leadingPunctuation |->
                      IF Ch(cleaned, 1) \in LeadingPunctuationSet
                      THEN Ch(cleaned, 1) ELSE "",
                  trailingPunctuation |->
                      IF Ch(cleaned, Len(cleaned)) \in TrailingPunctuationSet
                      THEN Ch(cleaned, Len(cleaned)) ELSE ""],
          li |-> special.li]

\* cleanWord(word): the CleanWord and the lastIndex values it leaves behind
cleanWord(word, li) ==
    IF trim(word) = ""
    THEN [cw |-> [clean |-> "", original |-> word,
                  leadingPunctuation |-> "", trailingPunctuation |-> ""],
          li |-> li]
    ELSE With(trim(toLowerCase(word)),
              LAMBDA cleaned : cleanLowered(word, cleaned, isSpecialCase(cleaned, li)))

\* rawTokens.map(cleanWord), threading the lastIndex values through the calls
RECURSIVE mapCleanWord(_, _)
mapCleanWord(rawTokens, li) ==
    IF rawTokens = << >> THEN [words |-> << >>, li |-> li]
    ELSE With(cleanWord(rawTokens[1], li),
              LAMBDA h :
                 With(mapCleanWord(Tail(rawTokens), h.li),
                      LAMBDA t : [words |-> <<h.cw>> \o t.words, li |-> t.li]))

\* extractCleanWords(text)
extractCleanWords(text, li) ==
    IF trim(text) = "" THEN [words |-> << >>, li |-> li]
    ELSE With(mapCleanWord(splitWhitespace(trim(text)), li),
              LAMBDA m : [words |-> SelectSeq(m.words, LAMBDA w : w.clean # ""),
                          li |-> m.li])

\* getCleanWordForMatching(word)
getCleanWordForMatching(word, li) ==
    With(cleanWord(word, li), LAMBDA c : [clean |-> c.cw.clean, li |-> c.li])

(***************************************************************************)
(* The passes of the engine (three-pass-engine.ts)                          *)
(*                                                                          *)
(* A CompressionPattern is a record [id, original_text, compressed_form,    *)
(* word_count, pass_priority, confidence_score].  A loaded rule set is the  *)
(* set of the rows the query returned: Array.find takes the first match in  *)
(* usage_count order, and no two patterns of the model have the same        *)
(* lower-cased original_text, so at most one row matches.                   *)
(***************************************************************************)
\* preserveCase(original, compressed); original is never empty where it is called
preserveCase(original, compressed) ==
    IF original = toUpperCase(original) THEN toUpperCase(compressed)
    ELSE IF Ch(original, 1) = toUpperChar(Ch(original, 1))
    THEN (IF compressed = "" THEN ""
          ELSE toUpperChar(Ch(compressed, 1)) \o toLowerCase(sliceFrom(compressed, 1)))
    ELSE toLowerCase(compressed)

\* tokens.slice(i, i + windowSize).map(t => t.text).join(' '), i 0-based
windowPhrase(tokens, i, windowSize) ==
    joinSpace([k \in 1..windowSize |-> tokens[i + k].text])

\* The tokens made of the clean words (performThreePassCompression, lines 126-133)
makeTokens(cleanWords) ==
    [k \in 1..Len(cleanWords) |->
        [text |-> cleanWords[k].clean, original |-> cleanWords[k].original,
         processed |-> FALSE, cleanWord |-> cleanWords[k]]]

\* applyPhraseCompression: the tokens after the substitution
applyPhraseTokens(tokens, startIndex, windowSize, pattern) ==
    [k \in 1..Len(tokens) |->
        IF k = startIndex + 1
        THEN [tokens[k] EXCEPT
                 !.text = preserveCase(windowPhrase(tokens, startIndex, windowSize),
                                       pattern.compressed_form),
                 !.processed = TRUE]
        ELSE IF k > startIndex + 1 /\ k <= startIndex + windowSize
        THEN [tokens[k] EXCEPT !.text = "", !.processed = TRUE]
        ELSE tokens[k]]

\* applyPhraseCompression: the applied-rule entry it pushes
phraseRule(startIndex, windowSize, pattern) ==
    [id |-> pattern.id, originalText |-> pattern.original_text,
     compressedForm |-> pattern.compressed_form, pass |-> 1,
     confidence |-> pattern.confidence_score,
     startIndex |-> startIndex, endIndex |-> startIndex + windowSize - 1]

\* performWordPass: the applied-rule entry it pushes.  The rows have no pattern_id
\* column, so pattern.pattern_id || pattern.original_text is the original text.
wordRule(i, pattern) ==
    [id |-> pattern.original_text, originalText |-> pattern.original_text,
     compressedForm |-> pattern.compressed_form, pass |-> 2,
     confidence |-> pattern.confidence_score,
     startIndex |-> i, endIndex |-> i]

\* this.phrasePatterns.find(...) of performPhrasePass; patterns is the rule set it reads
phraseMatches(patterns, phrase, windowSize) ==
    {p \in patterns :
        toLowerCase(p.original_text) = phrase /\ p.word_count = windowSize}

\* this.wordPatterns.find(...) of performWordPass; patterns is the rule set it reads
wordMatches(patterns, text) ==
    {p \in patterns : toLowerCase(p.original_text) = trim(toLowerCase(text))}

MaxWindow == 6

\* The body of the inner loop of performPhrasePass once a window of unprocessed
\* tokens is found: st after applyPhraseCompression when a pattern matches
phraseStep(st, windowSize, i, phrase, found) ==
    IF Len(phrase) < 2 \/ found = {} THEN st
    ELSE With(CHOOSE p \in found : TRUE,
              LAMBDA pattern :
                 [tokens |-> applyPhraseTokens(st.tokens, i, windowSize, pattern),
                  rules |-> Append(st.rules, phraseRule(i, windowSize, pattern)),
                  tokensProcessed |-> st.tokensProcessed + windowSize,
                  rulesApplied |-> st.rulesApplied + 1])

\* The loops of a phrase pass that sweeps the window sizes upwards, from windowSize
\* to MaxWindow
RECURSIVE phraseScanUp(_, _, _, _)
phraseScanUp(st, patterns, windowSize, i) ==
    IF windowSize > MaxWindow THEN st
    ELSE IF i > Len(st.tokens) - windowSize
    THEN phraseScanUp(st, patterns, windowSize + 1, 0)
    ELSE IF \E k \in 1..windowSize : st.tokens[i + k].processed
    THEN phraseScanUp(st, patterns, windowSize, i + 1)
    ELSE With(trim(windowPhrase(st.tokens, i, windowSize)),
              LAMBDA phrase :
                 phraseScanUp(phraseStep(st, windowSize, i, phrase,
                                         phraseMatches(patterns, phrase, windowSize)),
                              patterns, windowSize, i + 1))

\* The phrase pass with the shortest window first
phraseScanShortFirst(st, patterns, windowSize, i) ==
    phraseScanUp(st, patterns, MaxWindow + 1 - windowSize, i)

\* The loops of performPhrasePass from window size windowSize and start index i on;
\* st is [tokens, rules, tokensProcessed, rulesApplied]
RECURSIVE phraseScan(_, _, _, _)
phraseScan(st, patterns, windowSize, i) ==
    IF windowSize < 1 THEN st
    ELSE IF i > Len(st.tokens) - windowSize
    THEN phraseScan(st, patterns, windowSize - 1, 0)
    ELSE IF \E k \in 1..windowSize : st.tokens[i + k].processed
    THEN phraseScan(st, patterns, windowSize, i + 1)
    ELSE With(trim(windowPhrase(st.tokens, i, windowSize)),
              LAMBDA phrase :
                 phraseScan(phraseStep(st, windowSize, i, phrase,
                                       phraseMatches(patterns, phrase, windowSize)),
                            patterns, windowSize, i + 1))

performPhrasePass(tokens, appliedRules, patterns) ==
    phraseScan([tokens |-> tokens, rules |-> appliedRules,
                tokensProcessed |-> 0, rulesApplied |-> 0],
               patterns, MaxWindow, 0)

\* The body of the loop of performWordPass without the test of token.processed
wordStepOfProcessed(st, i, token, found) ==
    IF trim(token.text) = "" \/ found = {} THEN st
    ELSE With(CHOOSE p \in found : TRUE,
              LAMBDA pattern :
                 [tokens |-> [st.tokens EXCEPT
                                 ![i + 1].text =
                                     preserveCase(token.text, pattern.compressed_form),
                                 ![i + 1].processed = TRUE],
                  rules |-> Append(st.rules, wordRule(i, pattern)),
                  tokensProcessed |-> st.tokensProcessed + 1,
                  rulesApplied |-> st.rulesApplied + 1])

\* The body of the loop of performWordPass for the token at index i (0-based)
wordStep(st, i, token, found) ==
    IF token.processed \/ trim(token.text) = "" \/ found = {} THEN st
    ELSE With(CHOOSE p \in found : TRUE,
              LAMBDA pattern :
                 [tokens |-> [st.tokens EXCEPT
                                 ![i + 1].text =
                                     preserveCase(token.text, pattern.compressed_form),
                                 ![i + 1].processed = TRUE],
                  rules |-> Append(st.rules, wordRule(i, pattern)),
                  tokensProcessed |-> st.tokensProcessed + 1,
                  rulesApplied |-> st.rulesApplied + 1])

\* The loop of performWordPass from index i (0-based) on
RECURSIVE wordScan(_, _, _)
wordScan(st, patterns, i) ==
    IF i >= Len(st.tokens) THEN st
    ELSE wordScan(wordStep(st, i, st.tokens[i + 1],
                           wordMatches(patterns, st.tokens[i + 1].text)),
                  patterns, i + 1)

performWordPass(tokens, appliedRules, patterns) ==
    wordScan([tokens |-> tokens, rules |-> appliedRules,
              tokensProcessed |-> 0, rulesApplied |-> 0],
             patterns, 0)

\* reassembleText(tokens)
reassembleText(tokens) ==
    joinSpace(
        SelectSeq(
            [k \in 1..Len(tokens) |->
                tokens[k].cleanWord.leadingPunctuation \o tokens[k].text
                    \o tokens[k].cleanWord.trailingPunctuation],
            LAMBDA word : trim(word) # ""))

\* calculateCompressionRatio(original, compressed)
\* The ratio taken against the trimmed text instead of the caller's text
ratioOfTrimmed(original, compressed) ==
    IF Len(trim(original)) = 0 THEN 0
    ELSE RoundPercent(Len(trim(original)) - Len(compressed), Len(trim(original)))

\* calculateCompressionRatio(original, compressed)
calculateCompressionRatio(original, compressed) ==
    IF Len(original) = 0 THEN 0
    ELSE RoundPercent(Len(original) - Len(compressed), Len(original))

\* The applied-rule entry of Pass 0 (performThreePassCompression, lines 138-148)
pass0Rules(pass0Result) ==
    IF pass0Result.prefixRemoved # NULL
    THEN << [id |-> "pass0-prefix-removal",
             originalText |-> pass0Result.prefixRemoved,
             compressedForm |-> IF pass0Result.questionMarkAdded THEN "?" ELSE "",
             pass |-> 0, confidence |-> 95, startIndex |-> 0, endIndex |-> 0] >>
    ELSE << >>

(***************************************************************************)
(* Miss discovery (smart-miss-tracker.ts)                                   *)
(***************************************************************************)
SKIP_WORDS ==
    {"a", "an", "the",
     "for", "to", "at", "in", "on", "of", "by", "with", "from", "up", "out", "off",
     "is", "are", "was", "were", "be", "been", "being", "have", "has", "had", "do",
     "does", "did",
     "i", "you", "he", "she", "it", "we", "they", "me", "him", "her", "us", "them",
     "and", "or", "but", "so", "if", "as", "that", "this", "these", "those",
     "am", "my", "no", "go",
     "who", "what", "when", "where", "why", "how",
     "now", "then", "here", "there"}

\* HIGH_VALUE_PATTERNS: each is an anchored alternation /^(w1|w2|...)$/i
HIGH_VALUE_PATTERNS ==
    [TECH_TERMS |->
        {"blockchain", "kubernetes", "cryptocurrency", "javascript", "typescript",
         "database", "algorithm", "optimization", "authentication", "deployment",
         "infrastructure", "microservices", "containerization", "orchestration",
         "scalability"},
     LONG_COMMON |->
        {"definitely", "probably", "something", "everything", "anything", "nothing",
         "someone", "everyone", "anyone", "tomorrow", "tonight", "yesterday",
         "because", "through", "without", "between", "understand", "remember",
         "important", "necessary", "different", "beautiful", "wonderful",
         "excellent", "fantastic"},
     BUSINESS_TERMS |->
        {"management", "development", "marketing", "strategy", "analysis",
         "implementation", "integration", "configuration", "documentation",
         "presentation", "communication", "collaboration", "optimization",
         "efficiency", "productivity"},
     ABBREVIABLE |->
        {"please", "document", "application", "information", "technology",
         "government", "organization", "administration", "environment",
         "development", "management", "department", "university", "community",
         "individual", "professional", "commercial", "international",
         "educational", "traditional"}]

\* commonPatterns of isHighValuePhrase: not anchored, case-insensitive
commonPatterns ==
    {"right now", "good idea", "figure out", "find out", "check out",
     "let me know", "make sure", "as well", "at all", "of course",
     "by the way", "in order", "a lot", "kind of", "sort of",
     "as soon as", "as much as", "as long as", "such as",
     "thank you", "see you", "talk to", "going to", "want to",
     "need to", "have to", "able to", "used to", "trying to"}

\* sub occurs in s
includes(s, sub) ==
    \E i \in 1..(Len(s) - Len(sub) + 1) : SubSeq(s, i, i + Len(sub) - 1) = sub

MinLongWord == 8
MinWordLength == 4
MaxPhraseWords == 3

isHighValueWord(word) ==
    \/ \E k \in DOMAIN HIGH_VALUE_PATTERNS : toLowerCase(word) \in HIGH_VALUE_PATTERNS[k]
    \/ Len(word) >= MinLongWord

\* phrase.split(' '): the words of a phrase are joined by single spaces
isHighValuePhrase(phrase) ==
    /\ With(splitWhitespace(phrase),
            LAMBDA words : Len(words) >= 2 /\ Len(words) <= MaxPhraseWords)
    /\ \E pat \in commonPatterns : includes(toLowerCase(phrase), pat)

\* The tests of shouldSkipPhrase on the words of the phrase (lines 81-90)
shouldSkipWords(words) ==
    \/ Len(words) > MaxPhraseWords
    \/ \A i \in 1..Len(words) : toLowerCase(words[i]) \in SKIP_WORDS
    \/ \E i \in 2..Len(words) :
          Ch(words[i], 1) = toUpperChar(Ch(words[i], 1)) /\ Len(words[i]) > 1

shouldSkipPhrase(phrase) ==
    \/ \E i \in 1..Len(phrase) :
          \/ Ch(phrase, i) \in DigitSet
          \/ ~IsWordChar(Ch(phrase, i)) /\ ~IsSpace(Ch(phrase, i))
    \/ shouldSkipWords(splitWhitespace(phrase))

\* [...new Set(xs)]: the first occurrences, in order
RECURSIVE unique(_)
unique(xs) ==
    IF xs = << >> THEN << >>
    ELSE With(unique(SubSeq(xs, 1, Len(xs) - 1)),
              LAMBDA r : IF \E i \in 1..Len(r) : r[i] = xs[Len(xs)] THEN r
                         ELSE Append(r, xs[Len(xs)]))

\* trackSmartWords without its last test: every word of 4 characters is passed on
wordCandidatesByLength(words, appliedTexts) ==
    SelectSeq(unique(words),
              LAMBDA word : /\ word \notin appliedTexts
                            /\ word \notin SKIP_WORDS
                            /\ ~(Len(word) < MinWordLength /\ ~isHighValueWord(word)))

\* The words trackSmartWords passes to db.logMiss, in order
wordCandidates(words, appliedTexts) ==
    SelectSeq(unique(words),
              LAMBDA word : /\ word \notin appliedTexts
                            /\ word \notin SKIP_WORDS
                            /\ ~(Len(word) < MinWordLength /\ ~isHighValueWord(word))
                            /\ isHighValueWord(word))

\* The 2-word phrases followed by the 3-word phrases (trackSmartPhrases, lines 198-209)
phrasesOf(words) ==
    [i \in 1..(IF Len(words) > 1 THEN Len(words) - 1 ELSE 0) |->
        words[i] \o " " \o words[i + 1]]
    \o [i \in 1..(IF Len(words) > 2 THEN Len(words) - 2 ELSE 0) |->
        words[i] \o " " \o words[i + 1] \o " " \o words[i + 2]]

\* The phrases trackSmartPhrases passes to db.logMiss, in order
phraseCandidates(words, appliedTexts) ==
    SelectSeq(unique(phrasesOf(words)),
              LAMBDA phrase : /\ phrase \notin appliedTexts
                              /\ ~shouldSkipPhrase(phrase)
                              /\ isHighValuePhrase(phrase))

\* unprocessedTokens.map(t => getCleanWordForMatching(t.text)), threading lastIndex
RECURSIVE mapCleanForMatching(_, _)
mapCleanForMatching(texts, li) ==
    IF texts = << >> THEN [words |-> << >>, li |-> li]
    ELSE With(getCleanWordForMatching(texts[1], li),
              LAMBDA h :
                 With(mapCleanForMatching(Tail(texts), h.li),
                      LAMBDA t : [words |-> <<h.clean>> \o t.words, li |-> t.li]))

\* The db.logMiss calls for the words ws and then the phrases ps
missCalls(ws, ps) ==
    [k \in 1..Len(ws) |-> [text |-> ws[k], type |-> "word"]]
    \o [k \in 1..Len(ps) |-> [text |-> ps[k], type |-> "phrase"]]

\* trackSmartWords and trackSmartPhrases on the cleaned words
trackWordsAndPhrases(words, appliedTexts) ==
    missCalls(wordCandidates(words, appliedTexts),
              phraseCandidates(words, appliedTexts))

\* The texts of the tokens trackSmartMisses looks at (line 126)
unprocessedTexts(tokens) ==
    With(SelectSeq(tokens, LAMBDA token : ~token.processed /\ trim(token.text) # ""),
         LAMBDA unprocessedTokens :
            [k \in 1..Len(unprocessedTokens) |-> unprocessedTokens[k].text])

\* trackSmartMisses: the db.logMiss calls it makes, in order (the words, then the
\* phrases), and the lastIndex values it leaves.  Everything but the db.logMiss
\* calls is computed from the tokens and the applied rules before the first await.
trackSmartMisses(tokens, appliedRules, li) ==
    With(mapCleanForMatching(unprocessedTexts(tokens), li),
         LAMBDA m :
            [misses |-> trackWordsAndPhrases(
                            m.words,
                            {toLowerCase(appliedRules[k].originalText) :
                                k \in 1..Len(appliedRules)}),
             li |-> m.li])

(***************************************************************************)
(* The pattern rows of the model                                            *)
(*                                                                          *)
(* Confidence scores are DECIMAL(3,2) values, held as hundredths.           *)
(***************************************************************************)
\* The columns of a row of compressions that never change
Catalog ==
    [p1 |-> [original_text |-> "machine learning", compressed_form |-> "ML",
             word_count |-> 2, pass_priority |-> 1],
     p2 |-> [original_text |-> "learning helps", compressed_form |-> "LH",
             word_count |-> 2, pass_priority |-> 1],
     p3 |-> [original_text |-> "machine learning helps", compressed_form |-> "MLH",
             word_count |-> 3, pass_priority |-> 1],
     q0 |-> [original_text |-> "can you please", compressed_form |-> "",
             word_count |-> 3, pass_priority |-> 0],
     w3 |-> [original_text |-> "ml", compressed_form |-> "m",
             word_count |-> 1, pass_priority |-> 2],
     w1 |-> [original_text |-> "react", compressed_form |-> "rct",
             word_count |-> 1, pass_priority |-> 2],
     w2 |-> [original_text |-> "3d", compressed_form |-> "tRI",
             word_count |-> 1, pass_priority |-> 2]]

\* A row as select('*') returns it, with the columns the engine reads
Row(id, confidence) ==
    [id |-> id,
     original_text |-> Catalog[id].original_text,
     compressed_form |-> Catalog[id].compressed_form,
     word_count |-> Catalog[id].word_count,
     pass_priority |-> Catalog[id].pass_priority,
     confidence_score |-> confidence]

ZeroIndex == [i \in 1..Len(CONTRACTION_PATTERNS) |-> 0]

(***************************************************************************)
(* The passes as a pipeline: performThreePassCompression on a given text    *)
(* with given phrase and word rule sets, one stage per action               *)
(***************************************************************************)
PipelineTexts ==
    {"Can you please explain machine learning?",
     "explain machine learning",
     "Machine Learning rocks",
     "MACHINE LEARNING",
     "REACT is great", "React is great", "react is great",
     "Hello   World, again!",
     "  hello world  ",
     "I like React, TypeScript, and Node.js",
     "(wow!!) well-known, a,b",
     "I can't don't",
     "3D model",
     "Explain this",
     "Can you please help",
     "Could you help me?",
     "Can you please Explain this concept",
     "could you React to this.",
     "Would you A/B test",
     "I wonder, can you help",
     "Please help",
     "Can you please show 3D",
     "Use the blockchain, the blockchain helps someone",
     "machine learning helps",
     "Does machine learning, helps ML",
     "",
     "  "}

PipelineRuleSets ==
    {[phrase |-> pp, word |-> wp] :
        pp \in SUBSET {Row("p1", 90), Row("p2", 85), Row("p3", 95)},
        wp \in SUBSET {Row("w1", 80), Row("w2", 75), Row("w3", 70)}}

\* pass0Result is the empty set until Pass 0 has run, then the set of its result
PipelineIdle ==
    [stage |-> "idle", text |-> "", phrasePatterns |-> {}, wordPatterns |-> {},
     pass0Result |-> {}, textAfterPass0 |-> NULL, tokens |-> << >>, rules |-> << >>,
     compressed |-> NULL, compressionRatio |-> 0, misses |-> << >>]

\* clears: clearCache calls; changes: additions of a rule and manual adjustments
\* that changed a score; failures: failed persistence operations; lastUpdate: the
\* last update_confidence_score call; manuals, lastManual: the
\* manuallyAdjustConfidence calls and the last of them; sweeps: autoDisableLowConfidencePatterns calls; sweep: the ids the
\* running one selected; lastSweep: what the last one did.  A field that may be
\* without a value is the empty set or the set of its value.
HistoryIdle ==
    [clears |-> 0, changes |-> 0, failures |-> 0, lastUpdate |-> {},
     manuals |-> 0, lastManual |-> {}, sweeps |-> 0, sweep |-> {}, lastSweep |-> {}]

StoreIdle ==
    /\ compressions = [id \in {} |-> 0]
    /\ miss_log = [w \in {} |-> 0]
    /\ user_feedback = << >>

EngineIdle ==
    /\ pass0Patterns = {}
    /\ phrasePatterns = {}
    /\ wordPatterns = {}
    /\ cacheHits = [k \in {} |-> 0]
    /\ lastIndex = ZeroIndex
    /\ calls = << >>
    /\ history = HistoryIdle

InitText ==
    /\ StoreIdle
    /\ EngineIdle
    /\ feedbacks = << >>
    /\ \E t \in PipelineTexts, rs \in PipelineRuleSets :
          pipeline = [PipelineIdle EXCEPT !.stage = "input", !.text = t,
                         !.phrasePatterns = rs.phrase, !.wordPatterns = rs.word]

\* Lines 109-148: Pass 0, the tokenizer, the tokens, the Pass 0 rule
TextPass0 ==
    /\ pipeline.stage = "input"
    /\ With(processText(pipeline.text),
            LAMBDA pass0Result :
               With(extractCleanWords(pass0Result.processed, lastIndex),
                    LAMBDA cleanWords :
                       /\ pipeline' = [pipeline EXCEPT !.stage = "pass0",
                                          !.pass0Result = {pass0Result},
                                          !.textAfterPass0 = pass0Result.processed,
                                          !.tokens = makeTokens(cleanWords.words),
                                          !.rules = pass0Rules(pass0Result)]
                       /\ lastIndex' = cleanWords.li))
    /\ UNCHANGED << storeVars, pass0Patterns, phrasePatterns, wordPatterns, cacheHits,
                    calls, history, feedbacks >>

\* Line 152: Pass 1
TextPass1 ==
    /\ pipeline.stage = "pass0"
    /\ With(performPhrasePass(pipeline.tokens, pipeline.rules,
                              pipeline.phrasePatterns),
            LAMBDA r : pipeline' = [pipeline EXCEPT !.stage = "pass1",
                                       !.tokens = r.tokens, !.rules = r.rules])
    /\ UNCHANGED << storeVars, engineVars, feedbacks >>

\* Line 157: Pass 2
TextPass2 ==
    /\ pipeline.stage = "pass1"
    /\ With(performWordPass(pipeline.tokens, pipeline.rules, pipeline.wordPatterns),
            LAMBDA r : pipeline' = [pipeline EXCEPT !.stage = "pass2",
                                       !.tokens = r.tokens, !.rules = r.rules])
    /\ UNCHANGED << storeVars, engineVars, feedbacks >>

\* Lines 161-165: reassembly, the compression ratio, and the db.logMiss calls
\* trackMisses makes
TextReassemble ==
    /\ pipeline.stage = "pass2"
    /\ With(trackSmartMisses(pipeline.tokens, pipeline.rules, lastIndex),
            LAMBDA t :
               /\ pipeline' = [pipeline EXCEPT
                      !.stage = "done",
                      !.compressed = reassembleText(pipeline.tokens),
                      !.compressionRatio =
                          calculateCompressionRatio(pipeline.text,
                                                    reassembleText(pipeline.tokens)),
                      !.misses = t.misses]
               /\ lastIndex' = t.li)
    /\ UNCHANGED << storeVars, pass0Patterns, phrasePatterns, wordPatterns, cacheHits,
                    calls, history, feedbacks >>

NextText == TextPass0 \/ TextPass1 \/ TextPass2 \/ TextReassemble

SpecText == InitText /\ [][NextText]_vars

(***************************************************************************)
(* The persistence layer (supabase.ts, schema.sql)                          *)
(***************************************************************************)
MaxFailures == 1

\* A persistence operation may fail; the failures of a run are bounded
CanFail == history.failures < MaxFailures

Failed(ok) == IF ok THEN history ELSE [history EXCEPT !.failures = @ + 1]

\* The columns of a new row of compressions that change, with their defaults
NewRow(confidence) ==
    [confidence_score |-> confidence, usage_count |-> 0,
     positive_feedback |-> 0, negative_feedback |-> 0]

\* db.getPatternsByPriority(priority, minConfidence): the rows of the query
getPatternsByPriority(priority, minConfidence) ==
    {Row(id, compressions[id].confidence_score) :
        id \in {i \in DOMAIN compressions :
                   /\ Catalog[i].pass_priority = priority
                   /\ compressions[i].confidence_score >= minConfidence}}

\* increment_usage_count(pattern_text) of fix-functions.sql
increment_usage_count(pattern_text) ==
    [id \in DOMAIN compressions |->
        IF Catalog[id].original_text = pattern_text
        THEN [compressions[id] EXCEPT !.usage_count = @ + 1]
        ELSE compressions[id]]

\* The upsert of db.logMiss: a new row has the default frequency 1, a conflicting
\* row keeps its frequency
upsertMiss(wordPhrase) ==
    IF wordPhrase \in DOMAIN miss_log THEN miss_log
    ELSE [w \in DOMAIN miss_log \cup {wordPhrase} |->
             IF w = wordPhrase THEN 1 ELSE miss_log[w]]

\* increment_miss_frequency for the row of wordPhrase
increment_miss_frequency(wordPhrase) ==
    [w \in DOMAIN miss_log |->
        IF w = wordPhrase THEN miss_log[w] + 1 ELSE miss_log[w]]

(***************************************************************************)
(* ThreePassCompressionEngine.compress, one action per stretch of code      *)
(* between two awaits                                                       *)
(***************************************************************************)
MaxCalls == 2
MaxActive == 2
MaxChanges == 1
MaxClears == 1
MaxManuals == 1

MinConfidence == 70
DefaultConfidence == 70

EngineTexts ==
    {"explain machine learning", "use React", "use React ", "can't can't can't"}
StorePatternIds == {"p1", "w1"}

\* generateCacheKey(text): the MD5 digest of the trimmed, lower-cased text.  MD5 is
\* taken to be injective on the texts of the model, so the digest is represented by
\* the text it is computed from.
generateCacheKey(text) == trim(toLowerCase(text))

\* The error loadPatterns throws
loadPatternsError == "Database connection failed"

\* The error mapping of the compress API handler
apiError(message) ==
    IF includes(message, "Database connection failed")
    THEN [status |-> 503, error |-> "Database temporarily unavailable"]
    ELSE IF includes(message, "Unable to")
    THEN [status |-> 500, error |-> message]
    ELSE [status |-> 500, error |-> "Compression processing failed"]

Running(i) == calls[i].pc \notin {"done", "failed"}

Eligible == {id \in DOMAIN compressions : compressions[id].confidence_score >= MinConfidence}

ZeroPass == [tokensProcessed |-> 0, rulesApplied |-> 0]

\* A call of compress(text) at its start.  confidenceMode is the option of the API
\* request the call serves, "default" without one.  The fields from "before" on record what
\* the claims refer to (logged: the texts of the db.logMiss calls whose upsert and
\* increment both succeeded): the calls that had returned, the counts of clearCache calls
\* and store changes at the start and at the end, the patterns eligible at the
\* start, the rows its own loads returned, the persistence calls it made.
NewCall(text) ==
    [text |-> text, key |-> generateCacheKey(text), pc |-> "load0",
     confidenceMode |-> "default",
     error |-> NULL, response |-> NULL, result |-> NULL,
     pass0Result |-> NULL, tokens |-> << >>, rules |-> << >>,
     pass1 |-> ZeroPass, pass2 |-> ZeroPass,
     compressed |-> NULL, compressionRatio |-> 0,
     misses |-> << >>, usageNext |-> 1,
     before |-> {j \in 1..Len(calls) : calls[j].pc = "done"},
     clearsAtStart |-> history.clears, changesAtStart |-> history.changes,
     clearsAtEnd |-> history.clears, changesAtEnd |-> history.changes,
     eligibleAtStart |-> Eligible,
     loaded |-> [phrase |-> {}, word |-> {}],
     missCalls |-> 0, missFailures |-> 0, usageCalls |-> 0, usageFailures |-> 0,
     logged |-> << >>, stored |-> FALSE]

\* The call at its end
Ended(c) ==
    [c EXCEPT !.clearsAtEnd = history.clears, !.changesAtEnd = history.changes]

\* The cache check of a compress that writes the result it returns on a hit back
\* to the cache
CacheCheckRestoring(c) ==
    /\ Len(calls) < MaxCalls
    /\ Cardinality({i \in 1..Len(calls) : Running(i)}) < MaxActive
    /\ calls' = Append(calls,
                       IF c.key \in DOMAIN cacheHits
                       THEN [c EXCEPT !.pc = "done",
                                      !.result = [cacheHits[c.key] EXCEPT !.fromCache = TRUE],
                                      !.response = [status |-> 200, error |-> NULL]]
                       ELSE c)
    /\ cacheHits' = IF c.key \in DOMAIN cacheHits
                    THEN [cacheHits EXCEPT ![c.key].fromCache = TRUE]
                    ELSE cacheHits
    /\ UNCHANGED << storeVars, pass0Patterns, phrasePatterns, wordPatterns,
                    lastIndex, history, feedbacks, pipeline >>

\* Lines 58-72: the cache check for the call c; on a hit the cached result is
\* returned at once
CacheCheck(c) ==
    /\ Len(calls) < MaxCalls
    /\ Cardinality({i \in 1..Len(calls) : Running(i)}) < MaxActive
    /\ calls' = Append(calls,
                       IF c.key \in DOMAIN cacheHits
                       THEN [c EXCEPT !.pc = "done",
                                      !.result = [cacheHits[c.key] EXCEPT !.fromCache = TRUE],
                                      !.response = [status |-> 200, error |-> NULL]]
                       ELSE c)
    /\ UNCHANGED << storeVars, pass0Patterns, phrasePatterns, wordPatterns, cacheHits,
                    lastIndex, history, feedbacks, pipeline >>

\* compress(text)
Compress(text) == CacheCheck(NewCall(text))

\* The compress API handler for a request with the text and options.confidenceMode:
\* the text is validated (lines 348-371) and compressionEngine.compress(text,
\* sessionId) is called (line 381); the options are not read
CompressRequest(text, confidenceMode) ==
    /\ text # "" /\ trim(text) # ""
    /\ CacheCheck([NewCall(text) EXCEPT !.confidenceMode = confidenceMode])

\* loadPatterns passing on the error of the load instead of throwing its own
LoadFailedWithCause(c) ==
    Ended([c EXCEPT !.pc = "failed", !.error = "fetch failed",
                    !.response = apiError("fetch failed")])

\* loadPatterns: the catch block, lines 98-101, and the API handler's error mapping
LoadFailed(c) ==
    Ended([c EXCEPT !.pc = "failed", !.error = loadPatternsError,
                    !.response = apiError(loadPatternsError)])

\* Line 89
LoadPass0Patterns(i, ok) ==
    /\ calls[i].pc = "load0"
    /\ ok \/ CanFail
    /\ IF ok
       THEN /\ pass0Patterns' = getPatternsByPriority(0, MinConfidence)
            /\ calls' = [calls EXCEPT ![i].pc = "load1"]
       ELSE /\ calls' = [calls EXCEPT ![i] = LoadFailed(@)]
            /\ UNCHANGED pass0Patterns
    /\ history' = Failed(ok)
    /\ UNCHANGED << storeVars, phrasePatterns, wordPatterns, cacheHits, lastIndex,
                    feedbacks, pipeline >>

\* Line 92
LoadPhrasePatterns(i, ok) ==
    /\ calls[i].pc = "load1"
    /\ ok \/ CanFail
    /\ IF ok
       THEN /\ phrasePatterns' = getPatternsByPriority(1, MinConfidence)
            /\ calls' = [calls EXCEPT ![i].pc = "load2",
                                      ![i].loaded.phrase = phrasePatterns']
       ELSE /\ calls' = [calls EXCEPT ![i] = LoadFailed(@)]
            /\ UNCHANGED phrasePatterns
    /\ history' = Failed(ok)
    /\ UNCHANGED << storeVars, pass0Patterns, wordPatterns, cacheHits, lastIndex,
                    feedbacks, pipeline >>

\* Line 95
LoadWordPatterns(i, ok) ==
    /\ calls[i].pc = "load2"
    /\ ok \/ CanFail
    /\ IF ok
       THEN /\ wordPatterns' = getPatternsByPriority(2, MinConfidence)
            /\ calls' = [calls EXCEPT ![i].pc = "pass1",
                                      ![i].loaded.word = wordPatterns']
       ELSE /\ calls' = [calls EXCEPT ![i] = LoadFailed(@)]
            /\ UNCHANGED wordPatterns
    /\ history' = Failed(ok)
    /\ UNCHANGED << storeVars, pass0Patterns, phrasePatterns, cacheHits, lastIndex,
                    feedbacks, pipeline >>

\* Pass 0 left out, the text unchanged
pass0Skipped(text) ==
    [original |-> text, processed |-> text, prefixRemoved |-> NULL,
     questionMarkAdded |-> FALSE, compressionRatio |-> 0]

\* The first passes of a pipeline that runs Pass 0 only when the engine holds a
\* priority-0 pattern
RunPass1WithLoadedPass0(i) ==
    /\ calls[i].pc = "pass1"
    /\ With(IF pass0Patterns = {} THEN pass0Skipped(calls[i].text)
            ELSE processText(calls[i].text),
            LAMBDA pass0Result :
               With(extractCleanWords(pass0Result.processed, lastIndex),
                    LAMBDA cleanWords :
                       /\ With(performPhrasePass(makeTokens(cleanWords.words),
                                                 pass0Rules(pass0Result),
                                                 phrasePatterns),
                               LAMBDA r :
                                  calls' = [calls EXCEPT
                                      ![i].pc = "pass2",
                                      ![i].pass0Result = pass0Result,
                                      ![i].tokens = r.tokens,
                                      ![i].rules = r.rules,
                                      ![i].pass1 =
                                          [tokensProcessed |-> r.tokensProcessed,
                                           rulesApplied |-> r.rulesApplied]])
                       /\ lastIndex' = cleanWords.li))
    /\ UNCHANGED << storeVars, pass0Patterns, phrasePatterns, wordPatterns, cacheHits,
                    history, feedbacks, pipeline >>

\* Lines 109-152: Pass 0, the tokenizer, the tokens, the Pass 0 rule, and Pass 1
\* over the phrase rules the engine holds now
RunPass1(i) ==
    /\ calls[i].pc = "pass1"
    /\ With(processText(calls[i].text),
            LAMBDA pass0Result :
               With(extractCleanWords(pass0Result.processed, lastIndex),
                    LAMBDA cleanWords :
                       /\ With(performPhrasePass(makeTokens(cleanWords.words),
                                                 pass0Rules(pass0Result),
                                                 phrasePatterns),
                               LAMBDA r :
                                  calls' = [calls EXCEPT
                                      ![i].pc = "pass2",
                                      ![i].pass0Result = pass0Result,
                                      ![i].tokens = r.tokens,
                                      ![i].rules = r.rules,
                                      ![i].pass1 =
                                          [tokensProcessed |-> r.tokensProcessed,
                                           rulesApplied |-> r.rulesApplied]])
                       /\ lastIndex' = cleanWords.li))
    /\ UNCHANGED << storeVars, pass0Patterns, phrasePatterns, wordPatterns, cacheHits,
                    history, feedbacks, pipeline >>

\* Line 157: Pass 2 over the word rules the engine holds now
RunPass2(i) ==
    /\ calls[i].pc = "pass2"
    /\ With(performWordPass(calls[i].tokens, calls[i].rules, wordPatterns),
            LAMBDA r :
               calls' = [calls EXCEPT ![i].pc = "assemble",
                                      ![i].tokens = r.tokens,
                                      ![i].rules = r.rules,
                                      ![i].pass2 = [tokensProcessed |-> r.tokensProcessed,
                                                    rulesApplied |-> r.rulesApplied]])
    /\ UNCHANGED << storeVars, pass0Patterns, phrasePatterns, wordPatterns, cacheHits,
                    lastIndex, history, feedbacks, pipeline >>

\* performThreePassCompression returning before updateUsageCounts has run
StoreBeforeUsage(c) ==
    IF c.misses # << >> THEN "miss" ELSE "store"

\* Where a call goes on once misses and the rules from usageNext on are dealt with
AfterTracking(c) ==
    IF c.misses # << >> THEN "miss"
    ELSE IF c.usageNext <= Len(c.rules) THEN "usage"
    ELSE "store"

\* The call moved on to what AfterTracking says
Proceed(c) == [c EXCEPT !.pc = AfterTracking(c)]

\* The call with the text and the ratio of lines 161-162 and the db.logMiss calls
\* trackSmartMisses is going to make
Assembled(c, compressed, misses) ==
    Proceed([c EXCEPT !.compressed = compressed,
                      !.compressionRatio = calculateCompressionRatio(c.text, compressed),
                      !.misses = misses])

\* Lines 161-165: reassembly, the ratio, and trackMisses up to its first db.logMiss
Assemble(i) ==
    /\ calls[i].pc = "assemble"
    /\ With(trackSmartMisses(calls[i].tokens, calls[i].rules, lastIndex),
            LAMBDA t :
               /\ calls' = [calls EXCEPT ![i] =
                              Assembled(@, reassembleText(@.tokens), t.misses)]
               /\ lastIndex' = t.li)
    /\ UNCHANGED << storeVars, pass0Patterns, phrasePatterns, wordPatterns, cacheHits,
                    history, feedbacks, pipeline >>

\* db.logMiss, lines 117-131: the upsert; an error is thrown and caught by the
\* per-candidate try/catch of the tracker (smart-miss-tracker.ts, lines 174-185)
LogMissUpsert(i, ok) ==
    /\ calls[i].pc = "miss"
    /\ ok \/ CanFail
    /\ IF ok
       THEN /\ miss_log' = upsertMiss(Head(calls[i].misses).text)
            /\ calls' = [calls EXCEPT ![i].missCalls = @ + 1, ![i].pc = "missInc"]
       ELSE /\ calls' = [calls EXCEPT ![i] =
                           Proceed([@ EXCEPT !.missCalls = @ + 1,
                                             !.misses = Tail(@),
                                             !.missFailures = @ + 1])]
            /\ UNCHANGED miss_log
    /\ history' = Failed(ok)
    /\ UNCHANGED << compressions, user_feedback, pass0Patterns, phrasePatterns,
                    wordPatterns, cacheHits, lastIndex, feedbacks, pipeline >>

\* db.logMiss, lines 134-137: increment_miss_frequency for the row the upsert returned
LogMissIncrement(i, ok) ==
    /\ calls[i].pc = "missInc"
    /\ ok \/ CanFail
    /\ miss_log' = IF ok THEN increment_miss_frequency(Head(calls[i].misses).text)
                   ELSE miss_log
    /\ calls' = [calls EXCEPT ![i] =
                   Proceed([@ EXCEPT !.misses = Tail(@),
                                     !.missFailures = IF ok THEN @ ELSE @ + 1,
                                     !.logged = IF ok
                                                THEN Append(@, Head(calls[i].misses).text)
                                                ELSE @])]
    /\ history' = Failed(ok)
    /\ UNCHANGED << compressions, user_feedback, pass0Patterns, phrasePatterns,
                    wordPatterns, cacheHits, lastIndex, feedbacks, pipeline >>

\* updateUsageCounts without its catch block: the error ends the call
UsageFailedUncaught(c) ==
    Ended([c EXCEPT !.pc = "failed", !.usageFailures = @ + 1,
                    !.error = "rpc failed", !.response = apiError("rpc failed")])

\* The call after the db.incrementUsage of one rule failed: the catch block of
\* updateUsageCounts, lines 369-371
UsageFailed(c) ==
    Proceed([c EXCEPT !.usageNext = @ + 1, !.usageFailures = @ + 1])

\* updateUsageCounts, lines 365-373: db.incrementUsage for one applied rule
IncrementUsage(i, ok) ==
    /\ calls[i].pc = "usage"
    /\ ok \/ CanFail
    /\ compressions' =
          IF ok
          THEN increment_usage_count(calls[i].rules[calls[i].usageNext].originalText)
          ELSE compressions
    /\ calls' = [calls EXCEPT ![i] =
                   IF ok
                   THEN Proceed([@ EXCEPT !.usageCalls = @ + 1, !.usageNext = @ + 1])
                   ELSE UsageFailed([@ EXCEPT !.usageCalls = @ + 1])]
    /\ history' = Failed(ok)
    /\ UNCHANGED << miss_log, user_feedback, pass0Patterns, phrasePatterns,
                    wordPatterns, cacheHits, lastIndex, feedbacks, pipeline >>

\* The CompressionResult of lines 170-195
resultOf(c) ==
    [original |-> c.text, compressed |-> c.compressed,
     compressionRatio |-> c.compressionRatio, rulesApplied |-> c.rules,
     fromCache |-> FALSE,
     passResults |->
        [pass0 |-> IF c.pass0Result.prefixRemoved # NULL
                   THEN [tokensProcessed |-> 1, rulesApplied |-> 1] ELSE ZeroPass,
         pass1 |-> c.pass1, pass2 |-> c.pass2],
     pass0Result |-> c.pass0Result]

\* The cache store of a compress that keeps an entry another call has stored
CacheResultIfAbsent(i) ==
    /\ calls[i].pc = "store"
    /\ cacheHits' = IF calls[i].key \in DOMAIN cacheHits THEN cacheHits
                    ELSE [k \in DOMAIN cacheHits \cup {calls[i].key} |->
                             IF k = calls[i].key
                             THEN [resultOf(calls[i]) EXCEPT !.fromCache = FALSE]
                             ELSE cacheHits[k]]
    /\ calls' = [calls EXCEPT ![i] =
                   Ended([@ EXCEPT !.pc = "done", !.result = resultOf(calls[i]),
                                   !.response = [status |-> 200, error |-> NULL],
                                   !.stored = calls[i].key \notin DOMAIN cacheHits])]
    /\ UNCHANGED << storeVars, pass0Patterns, phrasePatterns, wordPatterns, lastIndex,
                    history, feedbacks, pipeline >>

\* Lines 170-195 and 78-80: the result is built, stored in the cache and returned
CacheResult(i) ==
    /\ calls[i].pc = "store"
    /\ cacheHits' = [k \in DOMAIN cacheHits \cup {calls[i].key} |->
                        IF k = calls[i].key
                        THEN [resultOf(calls[i]) EXCEPT !.fromCache = FALSE]
                        ELSE cacheHits[k]]
    /\ calls' = [calls EXCEPT ![i] =
                   Ended([@ EXCEPT !.pc = "done", !.result = resultOf(calls[i]),
                                   !.response = [status |-> 200, error |-> NULL],
                                   !.stored = TRUE])]
    /\ UNCHANGED << storeVars, pass0Patterns, phrasePatterns, wordPatterns, lastIndex,
                    history, feedbacks, pipeline >>

\* clearCache()
ClearCache ==
    /\ history.clears < MaxClears
    /\ cacheHits' = [k \in {} |-> 0]
    /\ history' = [history EXCEPT !.clears = @ + 1]
    /\ UNCHANGED << storeVars, pass0Patterns, phrasePatterns, wordPatterns, lastIndex,
                    calls, feedbacks, pipeline >>

(***************************************************************************)
(* Curation: the add-rule API handler and manuallyAdjustConfidence          *)
(***************************************************************************)
AddConfidences == {DefaultConfidence, 101}
ManualConfidences == {-1, 0, 85, 101}

\* The add-rule handler: the confidence is validated (lines 566-573), a rule with
\* the same text is refused (lines 580-588), the row is inserted (lines 609-623)
AddRule(id, confidenceScore) ==
    /\ history.changes < MaxChanges
    /\ ~(confidenceScore < 0 \/ confidenceScore > 100)
    /\ id \notin DOMAIN compressions
    /\ compressions' = [k \in DOMAIN compressions \cup {id} |->
                           IF k = id
                           THEN NewRow(confidenceScore)
                           ELSE compressions[k]]
    /\ history' = [history EXCEPT !.changes = @ + 1]
    /\ UNCHANGED << miss_log, user_feedback, pass0Patterns, phrasePatterns,
                    wordPatterns, cacheHits, lastIndex, calls, feedbacks, pipeline >>

\* Whether manuallyAdjustConfidence refuses the value (lines 274-276)
outOfRange(newConfidence) == newConfidence < 0 \/ newConfidence > 100

\* The confidence_score of the row patternId of the table, NULL without such a row
confidenceOf(table, patternId) ==
    IF patternId \in DOMAIN table THEN table[patternId].confidence_score ELSE NULL

\* How manuallyAdjustConfidence ends: the value is refused (lines 274-276), the row
\* is not found, or the score is written
manualOutcome(patternId, newConfidence) ==
    IF outOfRange(newConfidence) THEN "rejected"
    ELSE IF patternId \notin DOMAIN compressions THEN "failed"
    ELSE "adjusted"

\* manuallyAdjustConfidence(patternId, newConfidence): the value is validated, the
\* row is read (an unknown id is an error), the score is written.  db.supabase is
\* read as the client supabase.ts exports.
ManuallyAdjustConfidence(patternId, newConfidence) ==
    /\ history.changes < MaxChanges
    /\ history.manuals < MaxManuals
    /\ compressions' =
          IF manualOutcome(patternId, newConfidence) = "adjusted"
          THEN [compressions EXCEPT ![patternId].confidence_score = newConfidence]
          ELSE compressions
    /\ history' = [history EXCEPT
          !.changes = IF compressions' # compressions THEN @ + 1 ELSE @,
          !.manuals = @ + 1,
          !.lastManual = {[patternId |-> patternId, requested |-> newConfidence,
                           outcome |-> manualOutcome(patternId, newConfidence),
                           oldConfidence |-> confidenceOf(compressions, patternId),
                           newConfidence |-> confidenceOf(compressions', patternId)]}]
    /\ UNCHANGED << miss_log, user_feedback, pass0Patterns, phrasePatterns,
                    wordPatterns, cacheHits, lastIndex, calls, feedbacks, pipeline >>

(***************************************************************************)
(* The engine with its store: compress calls that overlap at their awaits,  *)
(* clearCache, and curation of the patterns                                 *)
(***************************************************************************)
Init ==
    /\ compressions = [id \in {"w1"} |-> NewRow(DefaultConfidence)]
    /\ miss_log = [w \in {} |-> 0]
    /\ user_feedback = << >>
    /\ EngineIdle
    /\ feedbacks = << >>
    /\ pipeline = PipelineIdle

Next ==
    \/ \E text \in EngineTexts : Compress(text)
    \/ \E i \in 1..Len(calls), ok \in BOOLEAN : LoadPass0Patterns(i, ok)
    \/ \E i \in 1..Len(calls), ok \in BOOLEAN : LoadPhrasePatterns(i, ok)
    \/ \E i \in 1..Len(calls), ok \in BOOLEAN : LoadWordPatterns(i, ok)
    \/ \E i \in 1..Len(calls) : RunPass1(i)
    \/ \E i \in 1..Len(calls) : RunPass2(i)
    \/ \E i \in 1..Len(calls) : Assemble(i)
    \/ \E i \in 1..Len(calls), ok \in BOOLEAN : LogMissUpsert(i, ok)
    \/ \E i \in 1..Len(calls), ok \in BOOLEAN : LogMissIncrement(i, ok)
    \/ \E i \in 1..Len(calls), ok \in BOOLEAN : IncrementUsage(i, ok)
    \/ \E i \in 1..Len(calls) : CacheResult(i)
    \/ ClearCache
    \/ \E id \in StorePatternIds, confidenceScore \in AddConfidences :
          AddRule(id, confidenceScore)
    \/ \E id \in DOMAIN compressions : ManuallyAdjustConfidence(id, 0)

Spec == Init /\ [][Next]_vars

(***************************************************************************)
(* The engine over a store whose only row is a priority-0 pattern: absent,  *)
(* at 0.90 or 0.70, or set to 0.00; texts with and without a question      *)
(* prefix                                                                   *)
(***************************************************************************)
Pass0Texts == {"Can you please explain learning", "explain learning"}

\* The states of the priority-0 pattern at the start: no row, or a row at 0.90;
\* a manual adjustment brings the row below the minimum confidence
Pass0Stores == {[id \in {} |-> NewRow(0)], [id \in {"q0"} |-> NewRow(90)]}

InitPass0 ==
    /\ compressions \in Pass0Stores
    /\ miss_log = [w \in {} |-> 0]
    /\ user_feedback = << >>
    /\ EngineIdle
    /\ feedbacks = << >>
    /\ pipeline = PipelineIdle

NextPass0 ==
    \/ \E text \in Pass0Texts : Compress(text)
    \/ \E i \in 1..Len(calls), ok \in BOOLEAN : LoadPass0Patterns(i, ok)
    \/ \E i \in 1..Len(calls), ok \in BOOLEAN : LoadPhrasePatterns(i, ok)
    \/ \E i \in 1..Len(calls), ok \in BOOLEAN : LoadWordPatterns(i, ok)
    \/ \E i \in 1..Len(calls) : RunPass1(i)
    \/ \E i \in 1..Len(calls) : RunPass2(i)
    \/ \E i \in 1..Len(calls) : Assemble(i)
    \/ \E i \in 1..Len(calls), ok \in BOOLEAN : LogMissUpsert(i, ok)
    \/ \E i \in 1..Len(calls), ok \in BOOLEAN : LogMissIncrement(i, ok)
    \/ \E i \in 1..Len(calls), ok \in BOOLEAN : IncrementUsage(i, ok)
    \/ \E i \in 1..Len(calls) : CacheResult(i)
    \/ ClearCache
    \/ AddRule("q0", DefaultConfidence)
    \/ ManuallyAdjustConfidence("q0", 0)

SpecPass0 == InitPass0 /\ [][NextPass0]_vars


(***************************************************************************)
(* The compress API with the confidence modes of a request, over a store    *)
(* with a phrase pattern at 0.40 and a word pattern at 0.75                 *)
(***************************************************************************)
\* CONFIDENCE_THRESHOLDS of confidence-system.ts
CONFIDENCE_THRESHOLDS ==
    [CONSERVATIVE |-> 85, DEFAULT |-> 70, AGGRESSIVE |-> 40, DISABLED |-> 30]

ConfidenceModes == {"conservative", "default", "aggressive"}
ModeTexts == {"explain machine learning", "use React"}

InitMode ==
    /\ compressions = [id \in {"p1", "w1"} |->
                          NewRow(IF id = "p1" THEN CONFIDENCE_THRESHOLDS.AGGRESSIVE
                                 ELSE 75)]
    /\ miss_log = [w \in {} |-> 0]
    /\ user_feedback = << >>
    /\ EngineIdle
    /\ feedbacks = << >>
    /\ pipeline = PipelineIdle

NextMode ==
    \/ \E text \in ModeTexts, confidenceMode \in ConfidenceModes :
          CompressRequest(text, confidenceMode)
    \/ \E i \in 1..Len(calls), ok \in BOOLEAN : LoadPass0Patterns(i, ok)
    \/ \E i \in 1..Len(calls), ok \in BOOLEAN : LoadPhrasePatterns(i, ok)
    \/ \E i \in 1..Len(calls), ok \in BOOLEAN : LoadWordPatterns(i, ok)
    \/ \E i \in 1..Len(calls) : RunPass1(i)
    \/ \E i \in 1..Len(calls) : RunPass2(i)
    \/ \E i \in 1..Len(calls) : Assemble(i)
    \/ \E i \in 1..Len(calls), ok \in BOOLEAN : LogMissUpsert(i, ok)
    \/ \E i \in 1..Len(calls), ok \in BOOLEAN : LogMissIncrement(i, ok)
    \/ \E i \in 1..Len(calls), ok \in BOOLEAN : IncrementUsage(i, ok)
    \/ \E i \in 1..Len(calls) : CacheResult(i)

SpecMode == InitMode /\ [][NextMode]_vars

(***************************************************************************)
(* Properties of the pipeline (SpecText)                                    *)
(***************************************************************************)
\* The span of the input a rule fired on, as the user wrote it: the raw tokens
\* from startIndex to endIndex
writtenSpan(tokens, startIndex, endIndex) ==
    joinSpace([k \in 1..(endIndex - startIndex + 1) |-> tokens[startIndex + k].original])

\* The word of a token as the user wrote it: the raw token without the leading and
\* the trailing punctuation mark the tokenizer took off
writtenText(token) ==
    SubSeq(trim(token.original),
           1 + Len(token.cleanWord.leadingPunctuation),
           Len(trim(token.original)) - Len(token.cleanWord.trailingPunctuation))

\* The text with its whitespace runs collapsed to single spaces
collapseWhitespace(text) == joinSpace(splitWhitespace(trim(text)))

C2_Text == "Can you please explain machine learning?"

\* C2: with the priority-1 pattern "machine learning" -> "ML" (confidence 0.90)
\* loaded, compress("Can you please explain machine learning?") returns the
\* compressed text "explain ML?".
C2_PhraseScenario ==
    (/\ pipeline.stage = "done"
     /\ pipeline.text = C2_Text
     /\ Row("p1", 90) \in pipeline.phrasePatterns)
        => pipeline.compressed = "explain ML?"

\* C3: the text a phrase or word rule substitutes follows the casing of the span
\* as the user wrote it: upper-case for an upper-case span, first letter
\* capitalised when only the first character of the span is upper-case,
\* lower-case otherwise.
C3_CaseFollowsWrittenSpan ==
    pipeline.stage = "done" =>
        \A k \in 1..Len(pipeline.rules) :
            pipeline.rules[k].pass \in {1, 2} =>
                pipeline.tokens[pipeline.rules[k].startIndex + 1].text =
                    preserveCase(writtenSpan(pipeline.tokens,
                                             pipeline.rules[k].startIndex,
                                             pipeline.rules[k].endIndex),
                                 pipeline.rules[k].compressedForm)

\* C4: for every token no rule substitutes the output contains leadingPunctuation +
\* the token's text as written + trailingPunctuation, and when no prefix and no
\* pattern matches the compressed text is the input with its whitespace collapsed.
C4_UntouchedTokensKept ==
    pipeline.stage = "done" =>
        /\ \A k \in 1..Len(pipeline.tokens) :
              ~pipeline.tokens[k].processed =>
                  includes(pipeline.compressed,
                           pipeline.tokens[k].cleanWord.leadingPunctuation
                               \o writtenText(pipeline.tokens[k])
                               \o pipeline.tokens[k].cleanWord.trailingPunctuation)
        /\ pipeline.rules = << >> =>
              pipeline.compressed = collapseWhitespace(pipeline.text)

(***************************************************************************)
(* Properties of Pass 0 and of the compression ratio (SpecText)             *)
(***************************************************************************)
\* The prefixes whose pattern matches at the start of the text
matchingPrefixes(text) ==
    {questionPrefixes[i] : i \in {k \in 1..Len(questionPrefixes) :
                                     prefixMatchLen(text, questionPrefixes[k]) > 0}}

\* The text that follows the removed prefix
remainingAfter(text, prefixRemoved) == trim(sliceFrom(text, Len(prefixRemoved)))

\* C13: when the start of the text matches several prefix patterns, prefixRemoved
\* is the longest of the matching prefixes, as the text has it.
C13_LongestPrefixRemoved ==
    \A r \in pipeline.pass0Result :
        matchingPrefixes(trim(pipeline.text)) # {} =>
            /\ r.prefixRemoved # NULL
            /\ toLowerCase(r.prefixRemoved) \in matchingPrefixes(trim(pipeline.text))
            /\ r.prefixRemoved = SubSeq(trim(pipeline.text), 1, Len(r.prefixRemoved))
            /\ \A q \in matchingPrefixes(trim(pipeline.text)) :
                  Len(q) <= Len(r.prefixRemoved)

\* "Can you please help" matches "can you please" and "can you", and
\* "Can you please" was removed
C13_Witness ==
    /\ pipeline.text = "Can you please help"
    /\ Cardinality(matchingPrefixes(pipeline.text)) = 2
    /\ \E r \in pipeline.pass0Result :
          r.prefixRemoved = "Can you please" /\ r.processed = "help?"

C15_CapitalisedWordLowered ==
    \A r \in pipeline.pass0Result :
        /\ (/\ r.prefixRemoved # NULL
            /\ Len(firstBySpace(remainingAfter(trim(pipeline.text), r.prefixRemoved))) >= 2
            /\ Ch(remainingAfter(trim(pipeline.text), r.prefixRemoved), 1) \in UpperSet
            /\ AllIn(Tail(firstBySpace(remainingAfter(trim(pipeline.text),
                                                      r.prefixRemoved))),
                     LowerSet))
              => Ch(r.processed, 1) \in LowerSet
        /\ pipeline.text = "Can you please Explain this concept" =>
              r.processed = "explain this concept?"

C17_RatioAtLeastPass0 ==
    pipeline.stage = "done" =>
        \A r \in pipeline.pass0Result : pipeline.compressionRatio >= r.compressionRatio


\* The words of the word stage of miss discovery: the texts of the tokens no rule
\* has processed, but for the texts of the applied rules
candidateWords ==
    {pipeline.tokens[k].text :
        k \in {n \in 1..Len(pipeline.tokens) :
                  /\ ~pipeline.tokens[n].processed
                  /\ pipeline.tokens[n].text # ""
                  /\ AllIn(pipeline.tokens[n].text, LowerSet)}}
    \ {toLowerCase(pipeline.rules[k].originalText) : k \in 1..Len(pipeline.rules)}

\* The db.logMiss calls of type 'word'
wordMisses == {k \in 1..Len(pipeline.misses) : pipeline.misses[k].type = "word"}

passRules == {k \in DOMAIN pipeline.rules : pipeline.rules[k].pass \in {1, 2}}

\* The rule covers the token at index t (0-based)
covers(rule, t) == rule.startIndex <= t /\ t <= rule.endIndex

\* The token spans of the Pass 1 and Pass 2 rules are pairwise disjoint and each
\* token lies in the span of at most one rule
spansDisjoint ==
    /\ \A a \in passRules, b \in passRules :
          a # b => \/ pipeline.rules[a].endIndex < pipeline.rules[b].startIndex
                   \/ pipeline.rules[b].endIndex < pipeline.rules[a].startIndex
    /\ \A t \in 0..(Len(pipeline.tokens) - 1) :
          Cardinality({k \in passRules : covers(pipeline.rules[k], t)}) <= 1

\* The step of Pass 2 leaves every token alone that Pass 1 marked processed
pass2KeepsProcessed ==
    pipeline.stage = "pass1" =>
        \A k \in DOMAIN pipeline.tokens :
            pipeline.tokens[k].processed => pipeline'.tokens[k] = pipeline.tokens[k]

\* C22: a processed token is excluded from every later window and pass: the token
\* spans of the Pass 1 and Pass 2 rules of a result are pairwise disjoint, a token
\* is substituted by at most one rule, and Pass 2 never changes a token that a
\* phrase match of Pass 1 replaced or absorbed.
C22_ProcessedTokensExcluded == [](spansDisjoint) /\ [][pass2KeepsProcessed]_vars

\* A finished run in which Pass 1 left a token whose text a loaded word pattern
\* matches, next to a token that Pass 2 did substitute
C22_Witness ==
    /\ pipeline.stage = "done"
    /\ \E k \in DOMAIN pipeline.tokens, r \in passRules :
          /\ pipeline.rules[r].pass = 1
          /\ covers(pipeline.rules[r], k - 1)
          /\ wordMatches(pipeline.wordPatterns, pipeline.tokens[k].text) # {}
    /\ \E r \in passRules : pipeline.rules[r].pass = 2

\* The clean words of the size tokens from index i (0-based), joined by spaces
cleanPhrase(i, size) ==
    joinSpace([k \in 1..size |-> pipeline.tokens[i + k].cleanWord.clean])

\* The loaded phrase patterns of size words whose text is the clean words at i
patternsAt(i, size) ==
    {p \in pipeline.phrasePatterns :
        toLowerCase(p.original_text) = cleanPhrase(i, size) /\ p.word_count = size}

\* The windows << start, size >> of the input at which a loaded phrase pattern matches
Matches ==
    {m \in (0..Len(pipeline.tokens)) \X (1..MaxWindow) :
        m[1] + m[2] <= Len(pipeline.tokens) /\ patternsAt(m[1], m[2]) # {}}

\* Pass 1 applied a pattern at the window
appliedAt(m) ==
    \E r \in passRules :
        /\ pipeline.rules[r].pass = 1
        /\ pipeline.rules[r].startIndex = m[1]
        /\ pipeline.rules[r].endIndex = m[1] + m[2] - 1
        /\ \E p \in patternsAt(m[1], m[2]) :
              pipeline.rules[r].originalText = p.original_text

overlap(m, n) == m[1] <= n[1] + n[2] - 1 /\ n[1] <= m[1] + m[2] - 1

\* The greedy order: longer windows first, of one size the leftmost first
sweptBefore(m, n) == m[2] > n[2] \/ (m[2] = n[2] /\ m[1] < n[1])

\* C23: Pass 1 is the greedy algorithm over window sizes 6 down to 1 and start
\* positions left to right: every rule of Pass 1 is a match of a loaded phrase
\* pattern, and a match is applied exactly when no overlapping match that is
\* longer, or of the same size and further left, is applied; so of a longer and
\* a shorter overlapping match the shorter is not applied, and of two overlapping
\* matches of one size the right one is not.
C23_GreedyLongestLeftmost ==
    pipeline.stage \in {"pass1", "pass2", "done"} =>
        /\ \A r \in passRules :
              pipeline.rules[r].pass = 1 =>
                  /\ << pipeline.rules[r].startIndex,
                        pipeline.rules[r].endIndex - pipeline.rules[r].startIndex + 1 >>
                        \in Matches
                  /\ appliedAt(<< pipeline.rules[r].startIndex,
                                  pipeline.rules[r].endIndex
                                      - pipeline.rules[r].startIndex + 1 >>)
        /\ \A m \in Matches :
              appliedAt(m) <=>
                  ~ \E n \in Matches :
                        n # m /\ overlap(m, n) /\ sweptBefore(n, m) /\ appliedAt(n)
        /\ \A m \in Matches, n \in Matches :
              (n # m /\ overlap(m, n) /\ appliedAt(m)) => ~ appliedAt(n)

\* A finished Pass 1 with a longer and a shorter overlapping match, the longer
\* applied
C23_Witness ==
    /\ pipeline.stage = "pass1"
    /\ \E m \in Matches, n \in Matches :
          overlap(m, n) /\ m[2] > n[2] /\ appliedAt(m) /\ ~ appliedAt(n)

\* The pieces of the tokens whose text is not empty, in the order of the tokens
survivingPieces ==
    [k \in 1..Len(SelectSeq(pipeline.tokens, LAMBDA token : token.text # "")) |->
        SelectSeq(pipeline.tokens, LAMBDA token : token.text # "")[k]
            .cleanWord.leadingPunctuation
        \o SelectSeq(pipeline.tokens, LAMBDA token : token.text # "")[k].text
        \o SelectSeq(pipeline.tokens, LAMBDA token : token.text # "")[k]
            .cleanWord.trailingPunctuation]

\* C24: in reassembly a token whose text a phrase match emptied contributes
\* nothing, neither text nor the punctuation it carried: the output is the pieces
\* of the tokens with a non-empty text, one piece per such token, in the order of
\* the tokens, joined by single spaces.
C24_AbsorbedTokensDropped ==
    pipeline.stage = "done" => pipeline.compressed = joinSpace(survivingPieces)

(***************************************************************************)
(* Properties of the engine with its store (Spec)                           *)
(***************************************************************************)
\* The calls that have returned a result
Done == {i \in 1..Len(calls) : calls[i].pc = "done"}

\* The original texts of the phrase and word rules in a result
appliedTexts(result) ==
    {result.rulesApplied[k].originalText :
        k \in {n \in 1..Len(result.rulesApplied) : result.rulesApplied[n].pass \in {1, 2}}}

\* The failures of db.logMiss and db.incrementUsage the calls have met
RECURSIVE trackingFailures(_)
trackingFailures(cs) ==
    IF cs = << >> THEN 0
    ELSE Head(cs).missFailures + Head(cs).usageFailures + trackingFailures(Tail(cs))

\* C1: for a fixed pattern state, a compress(t) that starts after a compress(t) has
\* returned, with no clearCache in between, returns the same compressed text and
\* compressionRatio with fromCache = true, and the first compress(t) returned
\* fromCache = false.
C1_RepeatIsCacheHit ==
    \A j \in Done :
        /\ \A i \in calls[j].before :
              (/\ calls[i].text = calls[j].text
               /\ calls[i].clearsAtEnd = calls[j].clearsAtStart
               /\ calls[i].changesAtStart = calls[j].changesAtStart)
                  => /\ calls[j].result.fromCache
                     /\ calls[j].result.compressed = calls[i].result.compressed
                     /\ calls[j].result.compressionRatio =
                            calls[i].result.compressionRatio
        /\ (\A i \in 1..(j - 1) : calls[i].text # calls[j].text)
              => ~calls[j].result.fromCache

\* C5: every rule Pass 1 applies is a priority-1 pattern and every rule Pass 2
\* applies is a priority-2 pattern, each with a confidence of at least the minimum,
\* in the sets the loads of that same call returned.
C5_AppliedRulesWereLoaded ==
    \A i \in 1..Len(calls) :
        \A k \in 1..Len(calls[i].rules) :
            /\ calls[i].rules[k].pass = 1 =>
                  \E p \in calls[i].loaded.phrase :
                      /\ p.id = calls[i].rules[k].id
                      /\ p.pass_priority = 1
                      /\ p.confidence_score >= MinConfidence
            /\ calls[i].rules[k].pass = 2 =>
                  \E p \in calls[i].loaded.word :
                      /\ p.original_text = calls[i].rules[k].originalText
                      /\ p.pass_priority = 2
                      /\ p.confidence_score >= MinConfidence

\* C6: the result of a call reflects the pattern store at the time of the call:
\* every pattern with a confidence of at least the threshold whose text occurs in
\* the input is applied, and no pattern below the threshold or absent is applied.
C6_ResultReflectsStore ==
    \A j \in Done :
        calls[j].changesAtStart = calls[j].changesAtEnd =>
            /\ \A id \in calls[j].eligibleAtStart :
                  includes(toLowerCase(calls[j].text), Catalog[id].original_text)
                     => Catalog[id].original_text \in appliedTexts(calls[j].result)
            /\ \A id \in DOMAIN Catalog :
                  Catalog[id].original_text \in appliedTexts(calls[j].result)
                     => id \in calls[j].eligibleAtStart

\* C9: a failed pattern load ends the call with the error "Database connection
\* failed", which the API reports as 503 "Database temporarily unavailable"; the
\* call returns no result, logs no miss, increments no usage count and stores
\* nothing in the cache, so a cache hit always stems from a call that succeeded.
C9_LoadFailureAborts ==
    /\ \A i \in 1..Len(calls) :
          calls[i].pc = "failed" =>
              /\ calls[i].error = "Database connection failed"
              /\ calls[i].response =
                     [status |-> 503, error |-> "Database temporarily unavailable"]
              /\ calls[i].result = NULL
              /\ calls[i].missCalls = 0
              /\ calls[i].usageCalls = 0
              /\ ~calls[i].stored
    /\ history.failures =
          Cardinality({i \in 1..Len(calls) : calls[i].pc = "failed"})
              + trackingFailures(calls)
    /\ \A k \in DOMAIN cacheHits :
          \E i \in Done : calls[i].key = k /\ calls[i].stored
    /\ \A j \in Done :
          calls[j].result.fromCache =>
              \E i \in calls[j].before : calls[i].key = calls[j].key

\* A load of a call failed, and the retry of the same text ran the pipeline
C9_Witness ==
    \E i \in 1..Len(calls), j \in Done :
        /\ calls[i].pc = "failed"
        /\ i < j
        /\ calls[j].text = calls[i].text
        /\ ~calls[j].result.fromCache

\* C10: a failed db.logMiss or db.incrementUsage does not abort the call and does
\* not change its result: the call never fails, compressed, compressionRatio and
\* rulesApplied are what the passes computed, db.incrementUsage is called for every
\* applied rule, and the result is stored in the cache.
C10_TrackingFailuresHarmless ==
    \A i \in 1..Len(calls) :
        /\ calls[i].pc = "failed" =>
              calls[i].missFailures = 0 /\ calls[i].usageFailures = 0
        /\ calls[i].pc \in {"miss", "missInc", "usage", "store"} =>
              calls[i].compressed = reassembleText(calls[i].tokens)
        /\ (calls[i].pc = "done" /\ ~calls[i].result.fromCache) =>
              /\ calls[i].result.compressed = reassembleText(calls[i].tokens)
              /\ calls[i].result.compressionRatio =
                     calculateCompressionRatio(calls[i].text,
                                               reassembleText(calls[i].tokens))
              /\ calls[i].result.rulesApplied = calls[i].rules
              /\ calls[i].usageCalls = Len(calls[i].rules)
              /\ calls[i].stored
              /\ history.clears = calls[i].clearsAtEnd =>
                    calls[i].key \in DOMAIN cacheHits

\* A call met a failure of db.logMiss or of db.incrementUsage and returned its result
C10_Witness ==
    \E i \in Done :
        /\ calls[i].missFailures + calls[i].usageFailures > 0
        /\ calls[i].stored
        /\ calls[i].result.compressed = reassembleText(calls[i].tokens)

\* The place of a call in the order of its states: the cache check is the start
\* of the call, the three loads are PatternsLoading, "pass1" is the call about to
\* run Pass 0 and Pass 1, "pass2" about to run Pass 2, "assemble" about to
\* reassemble, "miss" and "missInc" are MissDiscovery, "usage" is UsageUpdate,
\* "store" is the call about to store its result and return
phaseRank(pc) ==
    CASE pc \in {"load0", "load1", "load2"} -> 1
      [] pc = "pass1" -> 2
      [] pc = "pass2" -> 3
      [] pc = "assemble" -> 4
      [] pc \in {"miss", "missInc"} -> 5
      [] pc = "usage" -> 6
      [] pc = "store" -> 7
      [] pc \in {"done", "failed"} -> 8

\* One step as seen by the call i that exists before it
callStep(i) ==
    /\ phaseRank(calls'[i].pc) >= phaseRank(calls[i].pc)
    /\ phaseRank(calls'[i].pc) > phaseRank(calls[i].pc) + 1 =>
          \/ calls'[i].pc = "failed"
          \/ /\ calls[i].pc \in {"assemble", "miss", "missInc"}
             /\ calls'[i].pc \in {"usage", "store"}
             /\ calls'[i].misses = << >>
             /\ calls'[i].pc = "store" => calls'[i].usageNext > Len(calls'[i].rules)
    /\ calls[i].pc \in {"done", "failed"} => calls'[i] = calls[i]
    /\ (calls'[i].pc = "failed" /\ calls[i].pc # "failed") =>
          calls[i].pc \in {"load0", "load1", "load2"}
    /\ (calls'[i].pc = "done" /\ calls[i].pc # "done") =>
          /\ calls[i].pc = "store"
          /\ calls[i].misses = << >>
          /\ calls[i].usageNext > Len(calls[i].rules)
          /\ calls'[i].stored
          /\ calls[i].key \in DOMAIN cacheHits'
    /\ calls'[i].stored # calls[i].stored =>
          calls[i].pc = "store" /\ calls'[i].pc = "done"

\* C11: a call starts with the cache check and is done at once on a hit; otherwise
\* it goes through PatternsLoading, Pass 0, Pass 1, Pass 2, Reassembly,
\* MissDiscovery and UsageUpdate in this order and never back; its result is
\* stored in the cache only after UsageUpdate, as it gets done; a call that is
\* done or failed stays as it is; a call fails only out of PatternsLoading.
C11_CallStateMachine ==
    [][ /\ Len(calls') >= Len(calls)
        /\ \A i \in 1..Len(calls) : callStep(i)
        /\ \A i \in (Len(calls) + 1)..Len(calls') :
              IF calls'[i].key \in DOMAIN cacheHits
              THEN calls'[i].pc = "done" /\ calls'[i].result.fromCache
              ELSE calls'[i].pc = "load0"
        /\ cacheHits' # cacheHits =>
              \/ DOMAIN cacheHits' = {}
              \/ \E i \in 1..Len(calls) :
                    calls[i].pc = "store" /\ calls'[i].pc = "done" ]_vars

\* One call went through miss discovery with a db.logMiss call and got done,
\* another went through the usage update with a db.incrementUsage call and got done
C11_Witness ==
    \E i \in Done, j \in Done :
        /\ ~calls[i].result.fromCache /\ calls[i].missCalls > 0
        /\ ~calls[j].result.fromCache /\ calls[j].usageCalls > 0


\* C18: the original field of the result of a call is the text the call was
\* made with, whether the pipeline computed the result or the cache served it.
C18_OriginalIsCallerText ==
    \A j \in Done : calls[j].result.original = calls[j].text

\* The minimum confidence of a compression mode
modeThreshold(confidenceMode) ==
    CASE confidenceMode = "conservative" -> CONFIDENCE_THRESHOLDS.CONSERVATIVE
      [] confidenceMode = "default" -> CONFIDENCE_THRESHOLDS.DEFAULT
      [] confidenceMode = "aggressive" -> CONFIDENCE_THRESHOLDS.AGGRESSIVE

\* C19: the rule sets a call loads for Pass 1 and Pass 2 are the patterns of the
\* priority whose confidence is at least the minimum of the mode of the request:
\* 0.85 for conservative, 0.70 for default, 0.40 for aggressive.
C19_ModeSelectsMinimum ==
    \A i \in 1..Len(calls) :
        /\ calls[i].pc \notin {"load0", "load1", "failed"}
              /\ ~(calls[i].pc = "done" /\ calls[i].result.fromCache) =>
              calls[i].loaded.phrase =
                  getPatternsByPriority(1, modeThreshold(calls[i].confidenceMode))
        /\ calls[i].pc \notin {"load0", "load1", "load2", "failed"}
              /\ ~(calls[i].pc = "done" /\ calls[i].result.fromCache) =>
              calls[i].loaded.word =
                  getPatternsByPriority(2, modeThreshold(calls[i].confidenceMode))

\* How often the text occurs in the sequence
RECURSIVE occurrences(_, _)
occurrences(texts, w) ==
    IF texts = << >> THEN 0
    ELSE (IF Head(texts) = w THEN 1 ELSE 0) + occurrences(Tail(texts), w)

\* The number of db.logMiss calls for the text that succeeded, over the given calls
RECURSIVE successfulLogs(_, _)
successfulLogs(cs, w) ==
    IF cs = << >> THEN 0
    ELSE occurrences(Head(cs).logged, w) + successfulLogs(Tail(cs), w)

\* C21: while no db.logMiss call is under way, the frequency of a MissEntry is the
\* number of successful logs of its text: 1 after the first, n after n.
C21_FrequencyCountsLogs ==
    (\A i \in 1..Len(calls) : calls[i].pc # "missInc") =>
        \A w \in DOMAIN miss_log :
            successfulLogs(calls, w) > 0 => miss_log[w] = successfulLogs(calls, w)

\* C25: a call runs Pass 1 and Pass 2 against the pattern sets its own load
\* returned: when a call is about to run Pass 1 the phrase patterns the engine
\* holds are those the call loaded, and when it is about to run Pass 2 the word
\* patterns are those it loaded, however the calls interleave while the store
\* changes.
C25_OwnPatternSets ==
    \A i \in 1..Len(calls) :
        /\ calls[i].pc = "pass1" => phrasePatterns = calls[i].loaded.phrase
        /\ calls[i].pc = "pass2" => wordPatterns = calls[i].loaded.word

\* C26: for a fixed pattern state the pipeline is deterministic: a call that runs
\* the pipeline for a text after an earlier call has returned that ran it for the
\* same text (the cache cleared in between), with no change of the pattern store
\* from the start of the first to the end of the second, computes the same
\* compressed text from the same tokens.
C26_SameTextSameResult ==
    \A j \in Done, i \in Done :
        (/\ i \in calls[j].before
         /\ calls[i].text = calls[j].text
         /\ ~ calls[i].result.fromCache
         /\ ~ calls[j].result.fromCache
         /\ calls[i].changesAtStart = calls[j].changesAtEnd
         /\ calls[j].changesAtStart = calls[i].changesAtEnd)
            => /\ calls[i].result.compressed = calls[j].result.compressed
               /\ calls[i].tokens = calls[j].tokens

\* The calls that were served from the cache
Hits == {i \in Done : calls[i].result.fromCache}

\* A call served from the cache has loaded nothing, logged no miss, incremented no
\* usage count and stored nothing
hitsDidNothing ==
    \A i \in Hits :
        /\ calls[i].loaded = [phrase |-> {}, word |-> {}]
        /\ calls[i].missCalls = 0
        /\ calls[i].logged = << >>
        /\ calls[i].usageCalls = 0
        /\ ~ calls[i].stored

\* The step in which a compress call is served from the cache changes neither the
\* pattern store, nor the miss log, nor the patterns the engine holds, nor the cache
hitStepChangesNothing ==
    (/\ Len(calls') = Len(calls) + 1
     /\ calls'[Len(calls')].pc = "done")
        => /\ calls'[Len(calls')].result.fromCache
           /\ UNCHANGED << compressions, miss_log, user_feedback, cacheHits,
                           pass0Patterns, phrasePatterns, wordPatterns >>

\* C28: a cache hit has no side effect on the pattern store or the cache: the call
\* loads no patterns, logs no miss, increments no usage count and leaves the cache
\* as it was.
C28_CacheHitNoSideEffects == [](hitsDidNothing) /\ [][hitStepChangesNothing]_vars

\* Two calls for one text, the second served from the cache with a result that
\* has an applied word rule, whose usage count is 1
C28_Witness ==
    /\ Len(calls) = 2
    /\ 2 \in Hits
    /\ \E k \in 1..Len(calls[2].result.rulesApplied) :
          calls[2].result.rulesApplied[k].pass = 2
    /\ compressions["w1"].usage_count = 1

\* The cache held no entry for the key of the call i when it started: the cache
\* was cleared after every call for that key that had returned by then
startedWithoutEntry(i) ==
    \A k \in calls[i].before :
        calls[k].key = calls[i].key => calls[k].clearsAtEnd < calls[i].clearsAtStart

\* The call j started while the call i, started earlier for the same cache key,
\* had not returned, and the cache held no entry for the key when either started;
\* both have returned a result since
overlapping(i, j) ==
    /\ i \in Done /\ j \in Done
    /\ i < j
    /\ calls[i].key = calls[j].key
    /\ i \notin calls[j].before
    /\ startedWithoutEntry(i)
    /\ startedWithoutEntry(j)

\* The call ran the pipeline itself: its result is not from the cache and is what
\* its own tokens give, it made a db.logMiss call for every miss its tokens give
\* and a db.incrementUsage call for every rule it applied, and stored its result
ranPipeline(i) ==
    /\ ~ calls[i].result.fromCache
    /\ calls[i].result.compressed = reassembleText(calls[i].tokens)
    /\ \E li \in {ZeroIndex, [ZeroIndex EXCEPT ![1] = 5]} :
          calls[i].missCalls =
              Len(trackSmartMisses(calls[i].tokens, calls[i].rules, li).misses)
    /\ calls[i].usageCalls = Len(calls[i].rules)
    /\ calls[i].stored

\* C29: the cache check and the cache store are not one step: of two overlapping
\* calls for one cache key both run the whole pipeline and return fromCache =
\* false, each does its own miss logging and usage increments, and unless the
\* cache is cleared it then holds one entry for the key, a result of a call for it.
C29_OverlappingCallsBothRun ==
    \A i \in 1..Len(calls), j \in 1..Len(calls) :
        overlapping(i, j) =>
            /\ ranPipeline(i)
            /\ ranPipeline(j)
            /\ (history.clears = calls[i].clearsAtEnd
                    /\ history.clears = calls[j].clearsAtEnd) =>
                  /\ calls[i].key \in DOMAIN cacheHits
                  /\ Cardinality({k \in DOMAIN cacheHits : k = calls[i].key}) = 1
                  /\ ~ cacheHits[calls[i].key].fromCache
                  /\ cacheHits[calls[i].key].compressed
                        \in {calls[k].result.compressed :
                                k \in {n \in Done : calls[n].key = calls[i].key}}

\* Two overlapping calls for one key have returned; the word rule both applied
\* has the usage count 2
C29_Witness ==
    /\ overlapping(1, 2)
    /\ calls[1].usageCalls > 0
    /\ calls[2].usageCalls > 0
    /\ compressions["w1"].usage_count = 2
    /\ calls[1].key \in DOMAIN cacheHits

(***************************************************************************)
(* Properties of Pass 0 over the states of the priority-0 pattern           *)
(* (SpecPass0)                                                              *)
(***************************************************************************)
\* The calls that have returned a result the pipeline computed
Computed == {i \in Done : ~ calls[i].result.fromCache}

\* The Pass 0 rules of a result
pass0RulesOf(result) == SelectSeq(result.rulesApplied, LAMBDA rule : rule.pass = 0)

MaxFeedbacks == 2
MaxActiveFeedbacks == 1
MaxSweeps == 1

\* CONFIDENCE_THRESHOLDS.DISABLED
DisabledThreshold == 30

\* FEEDBACK_ADJUSTMENTS, and the adjustment db.updateConfidence passes
FEEDBACK_ADJUSTMENTS == [SATISFIED |-> 1, UNSATISFIED |-> -3]

adjustmentFor(satisfied) ==
    IF satisfied THEN FEEDBACK_ADJUSTMENTS.SATISFIED
    ELSE FEEDBACK_ADJUSTMENTS.UNSATISFIED

\* Math.max(0.00, Math.min(1.00, c)) and GREATEST(0.00, LEAST(1.00, c))
clampConfidence(c) == IF c < 0 THEN 0 ELSE IF c > 100 THEN 100 ELSE c

\* update_confidence_score without its bounds
unboundedConfidenceScore(pattern_id, adjustment) ==
    [id \in DOMAIN compressions |->
        IF id = pattern_id
        THEN [compressions[id] EXCEPT !.confidence_score = @ + adjustment]
        ELSE compressions[id]]

\* update_confidence_score(pattern_id, adjustment) of schema.sql
update_confidence_score(pattern_id, adjustment) ==
    [id \in DOMAIN compressions |->
        IF id = pattern_id
        THEN [compressions[id] EXCEPT
                 !.confidence_score = clampConfidence(@ + adjustment),
                 !.positive_feedback = IF adjustment > 0 THEN @ + 1 ELSE @,
                 !.negative_feedback = IF adjustment > 0 THEN @ ELSE @ + 1]
        ELSE compressions[id]]

\* The rule ids a feedback event can name: the id of a phrase rule, the id of a
\* word pattern, the id of the Pass 0 rule, the id the engine gives a word rule
FeedbackRules ==
    { <<"p1">>, <<"p1", "p1">>, <<"p1", "w1">>, <<"pass0-prefix-removal", "react">> }

InitialConfidences == {2, 29, 70, 100}
ConfidencePatternIds == {"p1", "w1"}

processFeedbackError == "Unable to process user feedback"

\* A call of processFeedback at its start; confidenceAtStart records the scores
\* the store held then, overlaps whether another call was running
NewFeedback(satisfied, rulesApplied) ==
    [satisfied |-> satisfied, rulesApplied |-> rulesApplied, pc |-> "submit",
     next |-> 1, oldConfidence |-> NULL, adjustments |-> << >>, error |-> NULL,
     confidenceAtStart |->
        [id \in DOMAIN compressions |-> compressions[id].confidence_score],
     overlaps |-> \E j \in 1..Len(feedbacks) : feedbacks[j].pc \notin {"done", "failed"}]

\* processFeedback, lines 40-51: the call starts
ProcessFeedback(satisfied, rulesApplied) ==
    /\ Len(feedbacks) < MaxFeedbacks
    /\ Cardinality({i \in 1..Len(feedbacks) :
                       feedbacks[i].pc \notin {"done", "failed"}}) < MaxActiveFeedbacks
    /\ feedbacks' = Append(feedbacks, NewFeedback(satisfied, rulesApplied))
    /\ UNCHANGED << storeVars, engineVars, pipeline >>

\* The call goes on with the rule at index next, or returns the adjustments
NextRule(f) ==
    [f EXCEPT !.pc = IF f.next <= Len(f.rulesApplied) THEN "fetch" ELSE "done"]

\* updateRuleConfidence returned null for the rule: the catch block, lines 110-113
RuleSkipped(f) == NextRule([f EXCEPT !.next = @ + 1, !.oldConfidence = NULL])

\* processFeedback going on to the rules although the event was not written
SubmitFailedIgnored(f) == NextRule(f)

\* The call after db.submitFeedback threw: the catch block, lines 74-77
SubmitFailed(f) == [f EXCEPT !.pc = "failed", !.error = processFeedbackError]

\* Lines 54-62: db.submitFeedback; an error ends the call (lines 74-77)
SubmitFeedback(i, ok) ==
    /\ feedbacks[i].pc = "submit"
    /\ ok \/ CanFail
    /\ IF ok
       THEN /\ user_feedback' =
                  Append(user_feedback,
                         [satisfied |-> feedbacks[i].satisfied,
                          rules_applied |-> feedbacks[i].rulesApplied])
            /\ feedbacks' = [feedbacks EXCEPT ![i] = NextRule(@)]
       ELSE /\ feedbacks' = [feedbacks EXCEPT ![i] = SubmitFailed(@)]
            /\ UNCHANGED user_feedback
    /\ history' = Failed(ok)
    /\ UNCHANGED << compressions, miss_log, pass0Patterns, phrasePatterns,
                    wordPatterns, cacheHits, lastIndex, calls, pipeline >>

\* updateRuleConfidence, lines 86-92: the score of the row with the rule's id is
\* read; no such row is an error of single()
FetchConfidence(i, ok) ==
    /\ feedbacks[i].pc = "fetch"
    /\ ok \/ CanFail
    /\ feedbacks' = [feedbacks EXCEPT ![i] =
          IF ok /\ feedbacks[i].rulesApplied[feedbacks[i].next] \in DOMAIN compressions
          THEN [@ EXCEPT !.pc = "update",
                         !.oldConfidence =
                             confidenceOf(compressions,
                                          feedbacks[i].rulesApplied[feedbacks[i].next])]
          ELSE RuleSkipped(@)]
    /\ history' = Failed(ok)
    /\ UNCHANGED << storeVars, pass0Patterns, phrasePatterns, wordPatterns, cacheHits,
                    lastIndex, calls, pipeline >>

\* The ConfidenceAdjustment updateRuleConfidence returns, lines 100-108
adjustmentOf(patternId, oldConfidence, satisfied) ==
    [patternId |-> patternId, oldConfidence |-> oldConfidence,
     newConfidence |-> clampConfidence(oldConfidence + adjustmentFor(satisfied)),
     adjustment |-> adjustmentFor(satisfied)]

\* updateRuleConfidence, lines 94-108: db.updateConfidence calls
\* update_confidence_score, and the adjustment is pushed
UpdateConfidence(i, ok) ==
    /\ feedbacks[i].pc = "update"
    /\ ok \/ CanFail
    /\ compressions' =
          IF ok
          THEN update_confidence_score(feedbacks[i].rulesApplied[feedbacks[i].next],
                                       adjustmentFor(feedbacks[i].satisfied))
          ELSE compressions
    /\ feedbacks' = [feedbacks EXCEPT ![i] =
          IF ok
          THEN NextRule([@ EXCEPT
                  !.next = @ + 1,
                  !.oldConfidence = NULL,
                  !.adjustments =
                      Append(@, adjustmentOf(feedbacks[i].rulesApplied[feedbacks[i].next],
                                             feedbacks[i].oldConfidence,
                                             feedbacks[i].satisfied))])
          ELSE RuleSkipped(@)]
    /\ history' =
          IF ok
          THEN [history EXCEPT !.lastUpdate =
                   {[patternId |-> feedbacks[i].rulesApplied[feedbacks[i].next],
                     satisfied |-> feedbacks[i].satisfied,
                     old |-> confidenceOf(compressions,
                                          feedbacks[i].rulesApplied[feedbacks[i].next]),
                     new |-> confidenceOf(compressions',
                                          feedbacks[i].rulesApplied[feedbacks[i].next])]}]
          ELSE Failed(ok)
    /\ UNCHANGED << miss_log, user_feedback, pass0Patterns, phrasePatterns,
                    wordPatterns, cacheHits, lastIndex, calls, pipeline >>

\* autoDisableLowConfidencePatterns, lines 317-324: the ids of the rows below the
\* threshold are read; an error or an empty selection ends the call
SelectLowConfidence(ok) ==
    /\ history.sweeps < MaxSweeps
    /\ history.sweep = {}
    /\ ok \/ CanFail
    /\ With({id \in DOMAIN compressions :
                compressions[id].confidence_score < DisabledThreshold},
            LAMBDA patternIds :
               history' = [Failed(ok) EXCEPT
                   !.sweeps = @ + 1,
                   !.sweep = IF ok /\ patternIds # {} THEN {patternIds} ELSE {},
                   !.lastSweep = IF ok /\ patternIds = {}
                                 THEN {[selected |-> {}, before |-> compressions,
                                        after |-> compressions]}
                                 ELSE history.lastSweep])
    /\ UNCHANGED << storeVars, pass0Patterns, phrasePatterns, wordPatterns, cacheHits,
                    lastIndex, calls, feedbacks, pipeline >>

\* autoDisableLowConfidencePatterns, lines 326-337: the selected rows get the
\* score 0.00
DisableSelected(ok) ==
    /\ history.sweep # {}
    /\ ok \/ CanFail
    /\ compressions' =
          IF ok
          THEN [id \in DOMAIN compressions |->
                   IF \E patternIds \in history.sweep : id \in patternIds
                   THEN [compressions[id] EXCEPT !.confidence_score = 0]
                   ELSE compressions[id]]
          ELSE compressions
    /\ history' = [Failed(ok) EXCEPT
          !.sweep = {},
          !.lastSweep = IF ok THEN {[selected |-> patternIds, before |-> compressions,
                                     after |-> compressions'] :
                                       patternIds \in history.sweep}
                        ELSE history.lastSweep]
    /\ UNCHANGED << miss_log, user_feedback, pass0Patterns, phrasePatterns,
                    wordPatterns, cacheHits, lastIndex, calls, feedbacks, pipeline >>

InitConf ==
    /\ \E confidence \in InitialConfidences :
          compressions = [id \in ConfidencePatternIds |->
                             NewRow(IF id = "p1" THEN confidence ELSE DefaultConfidence)]
    /\ miss_log = [w \in {} |-> 0]
    /\ user_feedback = << >>
    /\ EngineIdle
    /\ feedbacks = << >>
    /\ pipeline = PipelineIdle

NextConf ==
    \/ \E satisfied \in BOOLEAN, rulesApplied \in FeedbackRules :
          ProcessFeedback(satisfied, rulesApplied)
    \/ \E i \in 1..Len(feedbacks), ok \in BOOLEAN : SubmitFeedback(i, ok)
    \/ \E i \in 1..Len(feedbacks), ok \in BOOLEAN : FetchConfidence(i, ok)
    \/ \E i \in 1..Len(feedbacks), ok \in BOOLEAN : UpdateConfidence(i, ok)
    \/ \E id \in ConfidencePatternIds, newConfidence \in ManualConfidences :
          ManuallyAdjustConfidence(id, newConfidence)
    \/ \E ok \in BOOLEAN : SelectLowConfidence(ok)
    \/ \E ok \in BOOLEAN : DisableSelected(ok)

SpecConf == InitConf /\ [][NextConf]_vars

(***************************************************************************)
(* Properties of the confidence system (SpecConf)                           *)
(***************************************************************************)
\* The distinct rule ids of a feedback event
ruleIds(f) == {f.rulesApplied[k] : k \in 1..Len(f.rulesApplied)}

\* The feedback events so far are all processed, one after the other, each names
\* the one rule p1, no persistence operation failed, and no adjustment or sweep
\* changed a score
OnlyFeedbackOnP1 ==
    /\ history.failures = 0
    /\ history.changes = 0
    /\ history.lastSweep = {}
    /\ history.sweep = {}
    /\ \A i \in 1..Len(feedbacks) :
          /\ feedbacks[i].pc = "done"
          /\ ~feedbacks[i].overlaps
          /\ feedbacks[i].rulesApplied = << "p1" >>

\* The score after the feedback events from the index i on, starting from c
RECURSIVE afterFeedback(_, _)
afterFeedback(c, i) ==
    IF i > Len(feedbacks) THEN c
    ELSE afterFeedback(
            IF feedbacks[i].satisfied
            THEN (IF c + 1 > 100 THEN 100 ELSE c + 1)
            ELSE (IF c - 3 < 0 THEN 0 ELSE c - 3),
            i + 1)

Unwritten == {i \in 1..Len(feedbacks) : feedbacks[i].pc \in {"submit", "failed"}}

\* C12: a processFeedback call whose event write failed has thrown "Unable to
\* process user feedback", has looked at no rule and holds no adjustment; the
\* table of events has one row per call whose write succeeded; as long as no write
\* has succeeded, update_confidence_score has not run and no feedback counter or
\* score of a pattern has changed through feedback.
C12_FailedWriteChangesNothing ==
    /\ \A i \in 1..Len(feedbacks) :
          feedbacks[i].pc = "failed" =>
              /\ feedbacks[i].error = "Unable to process user feedback"
              /\ feedbacks[i].next = 1
              /\ feedbacks[i].adjustments = << >>
    /\ Len(user_feedback) = Len(feedbacks) - Cardinality(Unwritten)
    /\ Unwritten = 1..Len(feedbacks) =>
          /\ history.lastUpdate = {}
          /\ \A id \in DOMAIN compressions :
                /\ compressions[id].positive_feedback = 0
                /\ compressions[id].negative_feedback = 0
                /\ (history.changes = 0 /\ history.lastSweep = {}) =>
                      \A i \in 1..Len(feedbacks) :
                          compressions[id].confidence_score =
                              feedbacks[i].confidenceAtStart[id]

\* The event write of a call failed, with rules to adjust in the call
C12_Witness ==
    \E i \in 1..Len(feedbacks) :
        /\ feedbacks[i].pc = "failed"
        /\ feedbacks[i].rulesApplied = << "p1", "w1" >>
        /\ Unwritten = 1..Len(feedbacks)

=============================================================================
